---- MODULE Spec2Model ----
\* Car marketplace REST backend: the user store, the listing store, the
\* tokens handed out, and the requests in flight.  A request is a process:
\* it starts with the synchronous middleware chain of its route and then
\* advances one awaited store operation at a time, so that the operations of
\* two requests interleave exactly where the handlers await.
\* The browser client is the last variable: its state object, the token in
\* localStorage and the requests whose answers it awaits.
EXTENDS Integers, Sequences, FiniteSets, TLC

\* ---------------------------------------------------------------- bounds
MaxUsers == 2        \* user records ever inserted (the ids are never reused)
MaxCars  == 1        \* listings ever inserted
MaxViews == 2        \* detail fetches counted per listing
MaxListed == 3       \* listings in the store when the list requests start
MaxClock == 2        \* readings of the clock that differ
MaxPending == 2      \* requests of the browser client awaiting their response

\* ------------------------------------------------------------- constants
OK           == 200
CREATED      == 201
BAD_REQUEST  == 400
UNAUTHORIZED == 401
FORBIDDEN    == 403
NOT_FOUND    == 404
CONFLICT     == 409
INTERNAL_SERVER_ERROR == 500

ROLE_ADMIN == "admin"
ROLE_USER  == "user"
ROLES      == {"admin", "user", "premium_user", "moderator"}

INVALID_CREDENTIALS == "Invalid email or password"
USER_ALREADY_EXISTS == "User already exists"
USER_NOT_FOUND      == "User not found"
UNAUTHORIZED_ACCESS == "Unauthorized access"
INVALID_TOKEN       == "Invalid or expired token"
CAR_NOT_FOUND       == "Car listing not found"
VALIDATION_ERROR    == "Validation error"

\* ---------------------------------------------------------------- inputs
\* The request bodies a client may send.  "al" is a username shorter than
\* three characters, "short" a password shorter than six; "A@x.io" differs
\* from "a@x.io" by letter case only.
Usernames == {"ann", "bob", "al"}
Emails    == {"a@x.io", "A@x.io", "b@x.io"}
Passwords == {"secret1", "secret2", "short"}
Prices    == {-1, 10, 20}

Slots   == {1, 2}                \* the requests that can be in flight at once
OwnerKeys == {2, 3}              \* the owner a body may name
CarIds  == 1..MaxCars
MalformedId == -1                \* an id that is no ObjectId
Ids     == CarIds \cup {MalformedId}

VARIABLES users, cars, issued, reqs, last, nextUser, nextCar, mail, now, browser

vars == <<users, cars, issued, reqs, last, nextUser, nextCar, mail, now, browser>>

\* ------------------------------------------------------------ user model
Absent == "absent"      \* a key the body, or a path the document, does not carry

\* lowercase: true on the email path
Lower(e) == IF e = "A@x.io" THEN "a@x.io" ELSE e

\* the pre-save hook replaces the plaintext by its hash
HashPassword(p) == <<"bcrypt", p>>

\* user.comparePassword(candidate)
ComparePassword(candidate, hash) == HashPassword(candidate) = hash

\* trim: true on the firstName, lastName and phone paths
Trim(v) == IF v = " Al " THEN "Al" ELSE v

\* a stored user document: the paths the handlers write.  A path the
\* document does not hold is Absent; updatedAt is a reading of the clock.
UserDoc(username, email, password, role) ==
    [username |-> username, email |-> email, password |-> password, role |-> role,
     firstName |-> Absent, lastName |-> Absent, phone |-> Absent,
     address |-> Absent, updatedAt |-> 0]

\* new User({...}): the email is lowercased, the names and the phone are
\* trimmed, the role takes its default and updatedAt the time of creation
NewUser(body) ==
    [UserDoc(body.username, Lower(body.email), HashPassword(body.password), ROLE_USER)
        EXCEPT !.firstName = Trim(body.firstName), !.lastName = Trim(body.lastName),
               !.phone = Trim(body.phone), !.updatedAt = now]

\* the unique index on email alone
DuplicateKeys_EmailOnly(us, id, u) ==
    {f \in {"email"} : \E o \in DOMAIN us : o # id /\ us[o][f] = u[f]}

\* The unique indexes on username and email: the paths on which writing
\* record u under id would collide with another record.
DuplicateKeys(us, id, u) ==
    {f \in {"email", "username"} :
        \E o \in DOMAIN us : o # id /\ us[o][f] = u[f]}

\* User.findOne({ $or: [{ email }, { username }] })
FindByEmailOrUsername(us, email, username) ==
    {o \in DOMAIN us : us[o].email = Lower(email) \/ us[o].username = username}

\* User.findOne({ email })
FindByEmail(us, email) == {o \in DOMAIN us : us[o].email = Lower(email)}

\* ----------------------------------------------------------------- tokens
NoToken  == [userId |-> 0, role |-> "none", sig |-> "none"]

\* jwt.sign({ userId, role }, secret)
GenerateToken(userId, role) == [userId |-> userId, role |-> role, sig |-> "ok"]

\* the page after its script ran: state.user is null (0), state.token is
\* what localStorage holds (NoToken: null), DOMContentLoaded has not fired
\* and no request awaits its response
Browser(token) ==
    [user |-> 0, token |-> token, localStorage |-> token, loaded |-> FALSE,
     pending |-> {}]

\* a token that was not signed with the secret
ForgedTokens == {[userId |-> 1, role |-> ROLE_ADMIN, sig |-> "forged"]}

\* tokens signed with the secret whose expiry time has passed
ExpiredTokens == {[token EXCEPT !.sig = "expired"] : token \in issued}

\* a verification that accepts every token
VerifyToken_Any(token) == TRUE

\* jwt.verify(token, secret)
VerifyToken(token) == token.sig = "ok"

\* req.header('Authorization')?.split(' ')[1], then verifyToken: the request
\* context req.user, or the response that ends the request
NoHeader == NoToken

\* an Authorization header that is the scheme word alone
SchemeOnly == [userId |-> 0, role |-> "none", sig |-> "scheme"]

\* req.header('Authorization')?.split(' ')[1]: undefined without a header
\* and with the scheme word alone, else the token that follows the scheme
Token(header) == IF header \in {NoHeader, SchemeOnly} THEN NoToken ELSE header

Headers == issued \cup ForgedTokens \cup {NoHeader}

\* the headers that carry no token jwt.verify accepts
BadHeaders == {NoHeader, SchemeOnly} \cup ForgedTokens \cup ExpiredTokens

GateHeaders == issued \cup BadHeaders

\* a context that names the first user whatever the token
Decoded_First(token) == [userId |-> 1, role |-> token.role]

Decoded(token) == [userId |-> token.userId, role |-> token.role]

NoContext == [userId |-> 0, role |-> "none"]

\* -------------------------------------------------------------- responses
NoCar == [id |-> 0, views |-> 0]

NoPagination == [page |-> 0, limit |-> 0, total |-> 0, pages |-> 0]

\* res.status(status).json({ success, message, details, token, user, car,
\* cars, pagination }), with the statement that sent it; of details the
\* response keeps the fields, of user the id, of car the id and the view
\* counter, of cars the ids in the order sent
Response(kind, at, status, message) ==
    [kind |-> kind, at |-> at, status |-> status, message |-> message,
     details |-> {}, token |-> NoToken, user |-> 0, car |-> NoCar,
     cars |-> <<>>, pagination |-> NoPagination]

NoResponse == Response("none", "none", 0, "")

\* authenticate(req, res, next): the response when it does not call next
AuthenticateFailure(kind, header) ==
    IF Token(header) = NoToken
    THEN Response(kind, "authenticate:10", UNAUTHORIZED, UNAUTHORIZED_ACCESS)
    ELSE Response(kind, "authenticate:20", UNAUTHORIZED, INVALID_TOKEN)

\* a gate that also looks the subject up in the user store
Authenticated_Stored(header) ==
    /\ Token(header) # NoToken
    /\ VerifyToken(Token(header))
    /\ header.userId \in DOMAIN users

Authenticated(header) == Token(header) # NoToken /\ VerifyToken(Token(header))

\* validateRegistration / validateLogin / validateCar / validateProfileUpdate:
\* the response when the Joi schema reports an error; Joi stops at the first
\* error, whose path is field
ValidationFailure(kind, at, field) ==
    [Response(kind, at, BAD_REQUEST, VALIDATION_ERROR) EXCEPT !.details = {field}]

\* field.charAt(0).toUpperCase() + field.slice(1)
Capitalize(field) == IF field = "email" THEN "Email" ELSE "Username"

\* the errors the handlers pass on: err.name, err.code, the keys of
\* err.keyValue or err.errors, err.message, err.statusCode (0 when the error
\* has none)
DuplicateKeyError(field) ==
    [name |-> "MongoServerError", code |-> 11000, key |-> field,
     message |-> "E11000 duplicate key error", statusCode |-> 0]

ValidationError(fields) ==
    [name |-> "ValidationError", code |-> 0, key |-> fields,
     message |-> "Validation failed", statusCode |-> 0]

\* thrown when req.params.id cannot be cast to an ObjectId
CastError ==
    [name |-> "CastError", code |-> 0, key |-> "_id",
     message |-> "Cast to ObjectId failed", statusCode |-> 0]

\* thrown by express.json() when the request body is not JSON
ParseError ==
    [name |-> "SyntaxError", code |-> 0, key |-> "",
     message |-> "Unexpected token in JSON", statusCode |-> BAD_REQUEST]

\* errorHandler without the branch for the duplicate-key error
errorHandler_NoDuplicateKey(kind, err) ==
    IF err.name = "ValidationError"
    THEN [Response(kind, "errorHandler:14", BAD_REQUEST, VALIDATION_ERROR)
            EXCEPT !.details = err.key]
    ELSE Response(kind, "errorHandler:46",
                  IF err.statusCode # 0 THEN err.statusCode ELSE INTERNAL_SERVER_ERROR,
                  err.message)

\* errorHandler(err, req, res, next)
errorHandler(kind, err) ==
    IF err.name = "ValidationError"
    THEN [Response(kind, "errorHandler:14", BAD_REQUEST, VALIDATION_ERROR)
            EXCEPT !.details = err.key]
    ELSE IF err.code = 11000
    THEN Response(kind, "errorHandler:24", CONFLICT, Capitalize(err.key) \o " already exists")
    ELSE IF err.name = "JsonWebTokenError"
    THEN Response(kind, "errorHandler:32", UNAUTHORIZED, INVALID_TOKEN)
    ELSE IF err.name = "TokenExpiredError"
    THEN Response(kind, "errorHandler:39", UNAUTHORIZED, "Token has expired")
    ELSE Response(kind, "errorHandler:46",
                  IF err.statusCode # 0 THEN err.statusCode ELSE INTERNAL_SERVER_ERROR,
                  err.message)

\* --------------------------------------------------------------- requests
NoBody == [username |-> Absent, email |-> Absent, password |-> Absent,
           firstName |-> Absent, lastName |-> Absent, phone |-> Absent,
           address |-> Absent, price |-> 0, owner |-> 0, status |-> Absent,
           views |-> 0]

\* req.query of the list routes: a key is a string or absent
NoQuery == [status |-> Absent, minPrice |-> Absent, maxPrice |-> Absent,
            page |-> Absent, limit |-> Absent]

\* A request in flight: the handler, the step it is at, and what it still
\* reads: req.body, req.params.id, req.query, the document or the documents
\* the store returned to it and, behind authenticate on a list route or
\* behind authorize, req.user and the roles the route allows.
Request(kind, pc, body, id) ==
    [kind |-> kind, pc |-> pc, body |-> body, id |-> id, found |-> NoCar,
     user |-> NoContext, allowed |-> {}, query |-> NoQuery, page |-> <<>>]

Idle == Request("idle", "idle", NoBody, 0)

\* the handle a new request takes: the handles are interchangeable
Free(s) == reqs[s] = Idle /\ \A t \in Slots : reqs[t] = Idle => s <= t

\* of a document, what the response keeps
Payload(car) == [id |-> car.id, views |-> car.views]

InFlight(kind) == {s \in Slots : reqs[s].kind = kind}

\* ------------------------------------------------------------- validators
\* Each validator gives the path of the first error of schema.validate(data),
\* or NoError.
NoError == ""

\* Joi.string().alphanum().min(3).max(30)
UsernameOk(u) == u \in {"ann", "bob"}

\* Joi.string().min(6)
PasswordOk(p) == p \in {"secret1", "secret2"}

\* Joi.string().email()
EmailOk(e) == e \in Emails

\* Joi.string().max(50).allow(''), the key optional
LongName == "a name of fifty-one characters"

NameOk(n) == n # LongName

\* validateUserRegistration(data); confirmPassword repeats the password
validateUserRegistration(body) ==
    IF ~UsernameOk(body.username) THEN "username"
    ELSE IF ~EmailOk(body.email) THEN "email"
    ELSE IF ~PasswordOk(body.password) THEN "password"
    ELSE IF ~NameOk(body.firstName) THEN "firstName"
    ELSE IF ~NameOk(body.lastName) THEN "lastName"
    ELSE NoError

\* validateUserLogin(data)
validateUserLogin(body) ==
    IF ~EmailOk(body.email) THEN "email"
    ELSE IF ~PasswordOk(body.password) THEN "password"
    ELSE NoError

\* validateUserProfileUpdate(data): every key is optional and the empty
\* string is allowed
validateUserProfileUpdate(body) ==
    IF ~(body.username \in {Absent, ""} \/ UsernameOk(body.username)) THEN "username"
    ELSE IF ~(body.email \in {Absent, ""} \/ EmailOk(body.email)) THEN "email"
    ELSE IF ~NameOk(body.firstName) THEN "firstName"
    ELSE IF ~NameOk(body.lastName) THEN "lastName"
    ELSE NoError

\* ---------------------------------------------------------------- register
RegisterBodies ==
    {[NoBody EXCEPT !.username = u, !.email = e, !.password = p] :
        u \in Usernames, e \in Emails, p \in Passwords}

\* sendWelcomeEmail(email, username, firstName) called without await: the
\* send to the new user is started and its promise is pending, next to the
\* promises of the earlier sends
sendWelcomeEmail(sends, user) == (user :> "pending") @@ sends

\* what sendEmail throws when transporter.sendMail fails
EmailError ==
    [name |-> "Error", code |-> 0, key |-> "",
     message |-> "Email sending failed", statusCode |-> 0]

\* a rejection of the send handed to the error handler of the request
sendWelcomeEmail_next(resp, emailError) == errorHandler("register", emailError)

\* .catch((emailError) => console.error(...)): the rejection is logged and
\* the response sent stays what it was
sendWelcomeEmail_catch(resp, emailError) == resp

\* POST /auth/register: validateRegistration, then register up to the
\* answer of User.findOne
register(s, body) ==
    /\ Free(s)
    /\ validateUserRegistration(body) = NoError
            => nextUser + Cardinality(InFlight("register")) <= MaxUsers + 1
    /\  IF validateUserRegistration(body) # NoError
        THEN /\ last' = ValidationFailure("register", "validateRegistration:9",
                                         validateUserRegistration(body))
             /\ UNCHANGED reqs
        ELSE IF FindByEmailOrUsername(users, body.email, body.username) # {}
        THEN /\ last' = Response("register", "register:14", CONFLICT, USER_ALREADY_EXISTS)
             /\ UNCHANGED reqs
        ELSE /\ reqs' = [reqs EXCEPT ![s] = Request("register", "save", body, 0)]
             /\ UNCHANGED last
    /\ UNCHANGED <<users, cars, issued, nextUser, nextCar, mail, now, browser>>

\* register from user.save() to the response
register_save(s) ==
    /\ reqs[s].kind = "register" /\ reqs[s].pc = "save"
    /\ LET user == NewUser(reqs[s].body)
           dup  == DuplicateKeys(users, nextUser, user)
           token == GenerateToken(nextUser, user.role)
       IN IF dup # {}
          THEN /\ \E f \in dup : last' = errorHandler("register", DuplicateKeyError(f))
               /\ UNCHANGED <<users, issued, nextUser, mail>>
          ELSE /\ users' = (nextUser :> user) @@ users
               /\ mail' = sendWelcomeEmail(mail, nextUser)
               /\ nextUser' = nextUser + 1
               /\ issued' = issued \cup {token}
               /\ last' = [Response("register", "register:40", CREATED,
                                     "User registered successfully")
                              EXCEPT !.token = token, !.user = nextUser]
    /\ reqs' = [reqs EXCEPT ![s] = Idle]
    /\ UNCHANGED <<cars, nextCar, now, browser>>

\* what jwt.sign throws when the secret or the expiry it is given is unusable
SignError ==
    [name |-> "Error", code |-> 0, key |-> "",
     message |-> "secretOrPrivateKey must have a value", statusCode |-> 0]

\* register from user.save() on when generateToken throws: the record is
\* saved, the catch hands the error to errorHandler, no welcome notification
\* is started
register_generateTokenThrows(s) ==
    /\ reqs[s].kind = "register" /\ reqs[s].pc = "save"
    /\ LET user == NewUser(reqs[s].body) IN
        /\ DuplicateKeys(users, nextUser, user) = {}
        /\ users' = (nextUser :> user) @@ users
        /\ nextUser' = nextUser + 1
        /\ last' = errorHandler("register", SignError)
    /\ reqs' = [reqs EXCEPT ![s] = Idle]
    /\ UNCHANGED <<cars, issued, nextCar, mail, now, browser>>

\* the send of a pending welcome notification succeeds: sendEmail logs the
\* message id and the promise is fulfilled
sendEmail_sent(user) ==
    /\ user \in DOMAIN mail /\ mail[user] = "pending"
    /\ mail' = [mail EXCEPT ![user] = "fulfilled"]
    /\ UNCHANGED <<users, cars, issued, reqs, last, nextUser, nextCar, now, browser>>

\* the send of a pending welcome notification fails: sendEmail logs and
\* rethrows, the promise is rejected and register's .catch handles it
sendEmail_failed(user) ==
    /\ user \in DOMAIN mail /\ mail[user] = "pending"
    /\ mail' = [mail EXCEPT ![user] = "rejected"]
    /\ last' = sendWelcomeEmail_catch(last, EmailError)
    /\ UNCHANGED <<users, cars, issued, reqs, nextUser, nextCar, now, browser>>

\* ------------------------------------------------------------------- login
LoginBodies ==
    {[NoBody EXCEPT !.email = e, !.password = p] : e \in Emails, p \in Passwords}

\* the response of login when no user has the email
LoginNoUser == Response("login", "login:59", UNAUTHORIZED, INVALID_CREDENTIALS)

\* a wrong password told apart from an unknown email
LoginWrongPassword_Telling ==
    Response("login", "login:68", UNAUTHORIZED, "Wrong password")

\* the response of login when the password does not compare
LoginWrongPassword == Response("login", "login:68", UNAUTHORIZED, INVALID_CREDENTIALS)

\* POST /auth/login: validateLogin, then login; the handler reads the store
\* once (User.findOne) and answers from the record it read
login(body) ==
    /\  LET match == FindByEmail(users, body.email) IN
        IF validateUserLogin(body) # NoError
        THEN /\ last' = ValidationFailure("login", "validateLogin:28",
                                         validateUserLogin(body))
             /\ UNCHANGED issued
        ELSE IF match = {}
        THEN /\ last' = LoginNoUser
             /\ UNCHANGED issued
        ELSE \E id \in match :
             IF ~ComparePassword(body.password, users[id].password)
             THEN /\ last' = LoginWrongPassword
                  /\ UNCHANGED issued
             ELSE LET token == GenerateToken(id, users[id].role) IN
                  /\ issued' = issued \cup {token}
                  /\ last' = [Response("login", "login:77", OK, "Login successful")
                                 EXCEPT !.token = token, !.user = id]
    /\ UNCHANGED <<users, cars, reqs, nextUser, nextCar, mail, now, browser>>

\* ----------------------------------------------------------------- profile
ProfileBodies ==
    {[NoBody EXCEPT !.username = u, !.email = e] :
        u \in Usernames \cup {Absent, ""}, e \in Emails \cup {Absent, ""}}

\* an update document that writes every key, the absent ones as undefined
ApplyProfile_Undefined(user, body) ==
    [user EXCEPT !.username = body.username, !.email = Lower(body.email),
                 !.firstName = Trim(body.firstName), !.lastName = Trim(body.lastName),
                 !.phone = Trim(body.phone), !.address = body.address,
                 !.updatedAt = now]

\* the update document of updateUserProfile applied to a stored record: a
\* key the body does not carry is undefined and is not written; a value
\* written goes through the setters of its path; updatedAt is Date.now()
ApplyProfile(user, body) ==
    [user EXCEPT !.username = IF body.username = Absent THEN @ ELSE body.username,
                 !.email = IF body.email = Absent THEN @ ELSE Lower(body.email),
                 !.firstName = IF body.firstName = Absent THEN @ ELSE Trim(body.firstName),
                 !.lastName = IF body.lastName = Absent THEN @ ELSE Trim(body.lastName),
                 !.phone = IF body.phone = Absent THEN @ ELSE Trim(body.phone),
                 !.address = IF body.address = Absent THEN @ ELSE body.address,
                 !.updatedAt = now]

\* a phone that is an object: Joi.any() lets it through and the String path
\* cannot cast it
Uncastable == "[object Object]"

\* thrown when the update document cannot be cast to the schema
CastErrorAt(path) ==
    [name |-> "CastError", code |-> 0, key |-> path,
     message |-> "Cast to string failed", statusCode |-> 0]

\* runValidators: true: the paths whose validators reject the update; the
\* required validators of username and email reject the empty string
UpdateValidators(body) == {f \in {"username", "email"} : body[f] = ""}

\* a lookup that finds a record under every id
FoundUser_Always(store, id) == TRUE

\* User.findById / findByIdAndUpdate / findByIdAndDelete resolve to a
\* document, not to null
FoundUser(store, id) == id \in DOMAIN store

\* GET /users/profile: authenticate, getUserProfile
getUserProfile(header) ==
    /\  LET id == Decoded(header).userId IN
        IF ~Authenticated(header)
        THEN last' = AuthenticateFailure("getUserProfile", header)
        ELSE IF ~FoundUser(users, id)
        THEN last' = Response("getUserProfile", "getUserProfile:10",
                              NOT_FOUND, USER_NOT_FOUND)
        ELSE last' = [Response("getUserProfile", "getUserProfile:16", OK, "")
                        EXCEPT !.user = id]
    /\ UNCHANGED <<users, cars, issued, reqs, nextUser, nextCar, mail, now, browser>>

\* PUT /users/profile: authenticate, validateProfileUpdate, updateUserProfile
updateUserProfile(header, body) ==
    /\  LET id == Decoded(header).userId
            updated == ApplyProfile(users[id], body)
            dup == DuplicateKeys(users, id, updated)
        IN
        IF ~Authenticated(header)
        THEN /\ last' = AuthenticateFailure("updateUserProfile", header)
             /\ UNCHANGED users
        ELSE IF validateUserProfileUpdate(body) # NoError
        THEN /\ last' = ValidationFailure("updateUserProfile", "validateProfileUpdate:66",
                                         validateUserProfileUpdate(body))
             /\ UNCHANGED users
        ELSE IF body.phone = Uncastable
        THEN /\ last' = errorHandler("updateUserProfile", CastErrorAt("phone"))
             /\ UNCHANGED users
        ELSE IF UpdateValidators(body) # {}
        THEN /\ last' = errorHandler("updateUserProfile",
                                      ValidationError(UpdateValidators(body)))
             /\ UNCHANGED users
        ELSE IF ~FoundUser(users, id)
        THEN /\ last' = Response("updateUserProfile", "updateUserProfile:45",
                                  NOT_FOUND, USER_NOT_FOUND)
             /\ UNCHANGED users
        ELSE IF dup # {}
        THEN /\ \E f \in dup :
                  last' = errorHandler("updateUserProfile", DuplicateKeyError(f))
             /\ UNCHANGED users
        ELSE /\ users' = [users EXCEPT ![id] = updated]
             /\ last' = [Response("updateUserProfile", "updateUserProfile:51", OK,
                                   "Profile updated successfully") EXCEPT !.user = id]
    /\ UNCHANGED <<cars, issued, reqs, nextUser, nextCar, mail, now, browser>>

\* a removal that leaves the record in the store
Without_Kept(store, id) == store

\* the store without the record id
Without(store, id) == [o \in DOMAIN store \ {id} |-> store[o]]

\* DELETE /users/account: authenticate, deleteUserAccount
deleteUserAccount(header) ==
    /\  LET id == Decoded(header).userId IN
        IF ~Authenticated(header)
        THEN /\ last' = AuthenticateFailure("deleteUserAccount", header)
             /\ UNCHANGED users
        ELSE IF ~FoundUser(users, id)
        THEN /\ last' = Response("deleteUserAccount", "deleteUserAccount:67",
                                  NOT_FOUND, USER_NOT_FOUND)
             /\ UNCHANGED users
        ELSE /\ users' = Without(users, id)
             /\ last' = Response("deleteUserAccount", "deleteUserAccount:73", OK,
                                  "Account deleted successfully")
    /\ UNCHANGED <<cars, issued, reqs, nextUser, nextCar, mail, now, browser>>

\* ---------------------------------------------------------------- listings
\* Object.values(CAR_STATUS)
CAR_STATUS == {"available", "sold", "rented", "under_review"}

\* a request body for POST /cars and PUT /cars/:id: the price stands for the
\* fields of the schema, owner for a key the schema does not list (0: the
\* body carries no such key); views is another such key
CarBodies ==
    {[NoBody EXCEPT !.price = p] : p \in Prices}
        \cup {[NoBody EXCEPT !.price = 10, !.owner = o] : o \in OwnerKeys}

\* the schema with unknown keys allowed
validateCarListing_AllowUnknown(body) == IF body.price < 0 THEN "price" ELSE NoError

\* validateCarListing(data): price is Joi.number().min(0); Joi.object rejects
\* a key the schema does not list, after the keys it lists
validateCarListing(body) ==
    IF body.price < 0 THEN "price"
    ELSE IF body.owner # 0 THEN "owner"
    ELSE IF body.status # Absent THEN "status"
    ELSE IF body.views # 0 THEN "views"
    ELSE NoError

\* the body as sent, the owner not forced
CarData_AsSent(body, user) == body

\* { ...req.body, owner: req.user.userId }
CarData(body, user) == [body EXCEPT !.owner = user.userId]

\* new Car(carData): views takes its default, 0, when carData has no such
\* key, and status its default, CAR_STATUS.AVAILABLE
NewCar(id, data) ==
    [id |-> id, owner |-> data.owner, price |-> data.price, views |-> data.views,
     status |-> "available"]

\* null, what Car.findById resolves to when no listing has the id
NoListing == [id |-> 0, owner |-> 0, price |-> 0, views |-> 0, status |-> "none"]

\* a lookup that resolves to a document whatever the id
FindById_Phantom(store, id) ==
    IF id \in DOMAIN store THEN store[id] ELSE [NoListing EXCEPT !.id = id]

\* Car.findById(req.params.id) for an id that casts to an ObjectId
FindById(store, id) == IF id \in DOMAIN store THEN store[id] ELSE NoListing

\* { views: 1 } in place of the increment
IncViews_Set(car) == [car EXCEPT !.views = 1]

\* { $inc: { views: 1 } }
IncViews(car) == [car EXCEPT !.views = @ + 1]

\* { ...req.body, updatedAt: Date.now() } applied to a stored listing
ApplyCar(car, body) ==
    [car EXCEPT !.price = body.price,
                !.owner = IF body.owner = 0 THEN @ ELSE body.owner,
                !.status = IF body.status = Absent THEN @ ELSE body.status,
                !.views = IF body.views = 0 THEN @ ELSE body.views]

\* the ownership check left out
OwnerOrAdmin_Anyone(car, user) == TRUE

\* the ownership check without the administrator
OwnerOrAdmin_OwnerOnly(car, user) == car.owner = user.userId

\* the negation of: car.owner.toString() !== req.user.userId &&
\* req.user.role !== ROLES.ADMIN
OwnerOrAdmin(car, user) == car.owner = user.userId \/ user.role = ROLE_ADMIN

\* POST /cars: authenticate, validateCar, createCarListing
createCarListing(header, body) ==
    /\ (Authenticated(header) /\ validateCarListing(body) = NoError)
            => nextCar <= MaxCars
    /\  LET car == NewCar(nextCar, CarData(body, Decoded(header))) IN
        IF ~Authenticated(header)
        THEN /\ last' = AuthenticateFailure("createCarListing", header)
             /\ UNCHANGED <<cars, nextCar>>
        ELSE IF validateCarListing(body) # NoError
        THEN /\ last' = ValidationFailure("createCarListing", "validateCar:47",
                                         validateCarListing(body))
             /\ UNCHANGED <<cars, nextCar>>
        ELSE /\ cars' = (nextCar :> car) @@ cars
             /\ nextCar' = nextCar + 1
             /\ last' = [Response("createCarListing", "createCarListing:16", CREATED,
                                   "Car listing created successfully")
                            EXCEPT !.user = header.userId, !.car = Payload(car)]
    /\ UNCHANGED <<users, issued, reqs, nextUser, mail, now, browser>>

\* a POST or PUT whose body is not JSON: express.json() hands its error to
\* errorHandler before the route's middleware runs
express_json(kind) ==
    /\ last' = errorHandler(kind, ParseError)
    /\ UNCHANGED <<users, cars, issued, reqs, nextUser, nextCar, mail, now, browser>>

\* what car.populate rejects with when the store cannot be read
StoreError ==
    [name |-> "MongoNetworkError", code |-> 0, key |-> "",
     message |-> "connection closed", statusCode |-> 0]

\* POST /cars when car.populate('owner') rejects after car.save() resolved:
\* the listing is saved and the catch hands the error to errorHandler
createCarListing_populateRejects(header, body) ==
    /\ Authenticated(header) /\ validateCarListing(body) = NoError
    /\ nextCar <= MaxCars
    /\ cars' = (nextCar :> NewCar(nextCar, CarData(body, Decoded(header)))) @@ cars
    /\ nextCar' = nextCar + 1
    /\ last' = errorHandler("createCarListing", StoreError)
    /\ UNCHANGED <<users, issued, reqs, nextUser, mail, now, browser>>

\* GET /cars/:id: getCarListingById up to the answer of findByIdAndUpdate,
\* one atomic operation of the store
getCarListingById(s, id) ==
    /\ Free(s)
    /\  IF id = MalformedId
        THEN /\ last' = errorHandler("getCarListingById", CastError)
             /\ UNCHANGED <<cars, reqs>>
        ELSE IF id \notin DOMAIN cars
        THEN /\ last' = Response("getCarListingById", "getCarListingById:81",
                                  NOT_FOUND, CAR_NOT_FOUND)
             /\ UNCHANGED <<cars, reqs>>
        ELSE /\ cars[id].views < MaxViews
             /\ cars' = [cars EXCEPT ![id] = IncViews(@)]
             /\ reqs' = [reqs EXCEPT ![s] =
                    [Request("getCarListingById", "respond", NoBody, id)
                        EXCEPT !.found = Payload(IncViews(cars[id]))]]
             /\ UNCHANGED last
    /\ UNCHANGED <<users, issued, nextUser, nextCar, mail, now, browser>>

\* getCarListingById: the response, carrying the document the store returned
getCarListingById_respond(s) ==
    /\ reqs[s].kind = "getCarListingById" /\ reqs[s].pc = "respond"
    /\ last' = [Response("getCarListingById", "getCarListingById:87", OK, "")
                   EXCEPT !.car = reqs[s].found]
    /\ reqs' = [reqs EXCEPT ![s] = Idle]
    /\ UNCHANGED <<users, cars, issued, nextUser, nextCar, mail, now, browser>>

\* PUT /cars/:id: authenticate, validateCar, updateCarListing up to the
\* ownership check on the listing Car.findById returned
updateCarListing(s, header, body, id) ==
    /\ Free(s)
    /\  LET user == Decoded(header) IN
        IF ~Authenticated(header)
        THEN /\ last' = AuthenticateFailure("updateCarListing", header)
             /\ UNCHANGED reqs
        ELSE IF validateCarListing(body) # NoError
        THEN /\ last' = ValidationFailure("updateCarListing", "validateCar:47",
                                         validateCarListing(body))
             /\ UNCHANGED reqs
        ELSE IF id = MalformedId
        THEN /\ last' = errorHandler("updateCarListing", CastError)
             /\ UNCHANGED reqs
        ELSE IF FindById(cars, id) = NoListing
        THEN /\ last' = Response("updateCarListing", "updateCarListing:102",
                                  NOT_FOUND, CAR_NOT_FOUND)
             /\ UNCHANGED reqs
        ELSE IF ~OwnerOrAdmin(FindById(cars, id), user)
        THEN /\ last' = Response("updateCarListing", "updateCarListing:110", FORBIDDEN,
                                  "You can only update your own car listings")
             /\ UNCHANGED reqs
        ELSE /\ reqs' = [reqs EXCEPT ![s] =
                    Request("updateCarListing", "findByIdAndUpdate", body, id)]
             /\ UNCHANGED last
    /\ UNCHANGED <<users, cars, issued, nextUser, nextCar, mail, now, browser>>

\* updateCarListing from Car.findByIdAndUpdate to the response; the store
\* returns null when the listing is gone
updateCarListing_findByIdAndUpdate(s) ==
    /\ reqs[s].kind = "updateCarListing" /\ reqs[s].pc = "findByIdAndUpdate"
    /\ LET id == reqs[s].id
           ok == Response("updateCarListing", "updateCarListing:122", OK,
                          "Car listing updated successfully")
       IN IF id \in DOMAIN cars
          THEN /\ cars' = [cars EXCEPT ![id] = ApplyCar(@, reqs[s].body)]
               /\ last' = [ok EXCEPT !.car = Payload(ApplyCar(cars[id], reqs[s].body))]
          ELSE /\ last' = ok
               /\ UNCHANGED cars
    /\ reqs' = [reqs EXCEPT ![s] = Idle]
    /\ UNCHANGED <<users, issued, nextUser, nextCar, mail, now, browser>>

\* DELETE /cars/:id: authenticate, deleteCarListing up to the ownership check
deleteCarListing(s, header, id) ==
    /\ Free(s)
    /\  LET user == Decoded(header) IN
        IF ~Authenticated(header)
        THEN /\ last' = AuthenticateFailure("deleteCarListing", header)
             /\ UNCHANGED reqs
        ELSE IF id = MalformedId
        THEN /\ last' = errorHandler("deleteCarListing", CastError)
             /\ UNCHANGED reqs
        ELSE IF FindById(cars, id) = NoListing
        THEN /\ last' = Response("deleteCarListing", "deleteCarListing:138",
                                  NOT_FOUND, CAR_NOT_FOUND)
             /\ UNCHANGED reqs
        ELSE IF ~OwnerOrAdmin(FindById(cars, id), user)
        THEN /\ last' = Response("deleteCarListing", "deleteCarListing:146", FORBIDDEN,
                                  "You can only delete your own car listings")
             /\ UNCHANGED reqs
        ELSE /\ reqs' = [reqs EXCEPT ![s] =
                    Request("deleteCarListing", "findByIdAndDelete", NoBody, id)]
             /\ UNCHANGED last
    /\ UNCHANGED <<users, cars, issued, nextUser, nextCar, mail, now, browser>>

\* deleteCarListing from Car.findByIdAndDelete to the response
deleteCarListing_findByIdAndDelete(s) ==
    /\ reqs[s].kind = "deleteCarListing" /\ reqs[s].pc = "findByIdAndDelete"
    /\ cars' = Without(cars, reqs[s].id)
    /\ last' = Response("deleteCarListing", "deleteCarListing:154", OK,
                         "Car listing deleted successfully")
    /\ reqs' = [reqs EXCEPT ![s] = Idle]
    /\ UNCHANGED <<users, issued, nextUser, nextCar, mail, now, browser>>

\* ------------------------------------------------------------ list requests
\* the number a query string stands for: what parseInt and parseFloat return
\* for it and what it is coerced to by -, * and /
NumberOf(v) ==
    CASE v = "0" -> 0 [] v = "1" -> 1 [] v = "2" -> 2 [] v = "3" -> 3
      [] v = "10" -> 10 [] v = "20" -> 20 [] v = "30" -> 30
      [] v = "-1" -> -1

\* const { page = 1, limit = 10 } = req.query
PageOf(query)  == IF query.page = Absent THEN 1 ELSE NumberOf(query.page)
LimitOf(query) == IF query.limit = Absent THEN 10 ELSE NumberOf(query.limit)

\* if (status), if (minPrice), if (maxPrice)
Truthy(v) == v \notin {Absent, ""}

\* a price filter whose lower bound is exclusive
Matches_Exclusive(car, query) ==
    /\ Truthy(query.status) => car.status = query.status
    /\ Truthy(query.minPrice) => car.price > NumberOf(query.minPrice)
    /\ Truthy(query.maxPrice) => car.price <= NumberOf(query.maxPrice)

\* the filter getAllCarListings builds from req.query, applied to a listing
Matches(car, query) ==
    /\ Truthy(query.status) => car.status = query.status
    /\ Truthy(query.minPrice) => car.price >= NumberOf(query.minPrice)
    /\ Truthy(query.maxPrice) => car.price <= NumberOf(query.maxPrice)

\* .sort({ createdAt: -1 }): the ids of a set, the last created first
RECURSIVE SortDesc(_)
SortDesc(ids) ==
    IF ids = {} THEN <<>>
    ELSE LET newest == CHOOSE i \in ids : \A j \in ids : j <= i
         IN <<newest>> \o SortDesc(ids \ {newest})

\* a page that starts one listing late
SkipLimit_OffByOne(sorted, skip, limit) ==
    SubSeq(sorted, skip + 2, IF skip + 1 + limit < Len(sorted)
                             THEN skip + 1 + limit ELSE Len(sorted))

\* the number of documents a cursor with .limit(limit) returns at most: a
\* limit of 0 is no limit, a negative limit is its absolute value
AtMost(limit, all) == IF limit = 0 THEN all ELSE IF limit < 0 THEN -limit ELSE limit

\* .skip(skip).limit(limit) over the sorted matches, skip >= 0
SkipLimit(sorted, skip, limit) ==
    LET n == AtMost(limit, Len(sorted))
    IN SubSeq(sorted, skip + 1, IF skip + n < Len(sorted)
                                THEN skip + n ELSE Len(sorted))

\* Infinity and NaN, both of which res.json sends as null
NotFinite == -1000

\* Math.ceil(total / limit): Infinity or NaN when limit is 0, and for a
\* negative limit the ceiling of a quotient that is not positive
Ceil(total, limit) ==
    IF limit = 0 THEN NotFinite
    ELSE IF limit < 0 THEN -(total \div (-limit))
    ELSE (total + limit - 1) \div limit

\* const skip = (page - 1) * limit
Skip(query) == (PageOf(query) - 1) * LimitOf(query)

\* what the store rejects a find with when skip is negative
SkipError ==
    [name |-> "MongoServerError", code |-> 2, key |-> "",
     message |-> "Skip value must be non-negative", statusCode |-> 0]

\* Car.find(filter).skip(skip).limit(parseInt(limit)).sort({ createdAt: -1 })
Find(ids, query) == SkipLimit(SortDesc(ids), Skip(query), LimitOf(query))

\* the pagination object of a list response
Pagination(query, total) ==
    [page |-> PageOf(query), limit |-> LimitOf(query), total |-> total,
     pages |-> Ceil(total, LimitOf(query))]

\* GET /cars: getAllCarListings up to the answer of Car.find
getAllCarListings(s, query) ==
    /\ Free(s)
    /\ IF Skip(query) < 0
       THEN /\ last' = errorHandler("getAllCarListings", SkipError)
            /\ UNCHANGED reqs
       ELSE /\ reqs' = [reqs EXCEPT ![s] =
                   [Request("getAllCarListings", "countDocuments", NoBody, 0)
                       EXCEPT !.query = query,
                              !.page = Find({id \in DOMAIN cars :
                                                    Matches(cars[id], query)},
                                            query)]]
            /\ UNCHANGED last
    /\ UNCHANGED <<users, cars, issued, nextUser, nextCar, mail, now, browser>>

\* getAllCarListings from Car.countDocuments to the response
getAllCarListings_countDocuments(s) ==
    /\ reqs[s].kind = "getAllCarListings" /\ reqs[s].pc = "countDocuments"
    /\ LET query == reqs[s].query
           total == Cardinality({id \in DOMAIN cars : Matches(cars[id], query)})
       IN last' = [Response("getAllCarListings", "getAllCarListings:56", OK, "")
                      EXCEPT !.cars = reqs[s].page,
                             !.pagination = Pagination(query, total)]
    /\ reqs' = [reqs EXCEPT ![s] = Idle]
    /\ UNCHANGED <<users, cars, issued, nextUser, nextCar, mail, now, browser>>

\* GET /cars/user/listings: authenticate, getUserCarListings up to the answer
\* of Car.find
getUserCarListings(s, header, query) ==
    /\ Free(s)
    /\ IF ~Authenticated(header)
       THEN /\ last' = AuthenticateFailure("getUserCarListings", header)
            /\ UNCHANGED reqs
       ELSE IF Skip(query) < 0
       THEN /\ last' = errorHandler("getUserCarListings", SkipError)
            /\ UNCHANGED reqs
       ELSE /\ reqs' = [reqs EXCEPT ![s] =
                   [Request("getUserCarListings", "countDocuments", NoBody, 0)
                       EXCEPT !.query = query, !.user = Decoded(header),
                              !.page = Find({id \in DOMAIN cars :
                                                    cars[id].owner = header.userId},
                                            query)]]
            /\ UNCHANGED last
    /\ UNCHANGED <<users, cars, issued, nextUser, nextCar, mail, now, browser>>

\* getUserCarListings from Car.countDocuments to the response
getUserCarListings_countDocuments(s) ==
    /\ reqs[s].kind = "getUserCarListings" /\ reqs[s].pc = "countDocuments"
    /\ LET query == reqs[s].query
           total == Cardinality({id \in DOMAIN cars :
                                    cars[id].owner = reqs[s].user.userId})
       IN last' = [Response("getUserCarListings", "getUserCarListings:176", OK, "")
                      EXCEPT !.cars = reqs[s].page,
                             !.pagination = Pagination(query, total)]
    /\ reqs' = [reqs EXCEPT ![s] = Idle]
    /\ UNCHANGED <<users, cars, issued, nextUser, nextCar, mail, now, browser>>

\* ------------------------------------------------------ the browser client
\* what the client leaves alone when the server's answer changes no store
Server == <<users, cars, issued, reqs, last, nextUser, nextCar, mail, now>>

\* apiRequest(endpoint, options) up to the await of fetch: the Authorization
\* header is built from state.token as it is when the request is sent
apiRequest(fn, body) == [fn |-> fn, header |-> browser.token, body |-> body]

\* the page with a request taken from those awaiting a response
Settled(call) == [browser EXCEPT !.pending = @ \ {call}]

\* logout()
logout(page) == [page EXCEPT !.token = NoToken, !.user = 0, !.localStorage = NoToken]

\* the page is loaded again: the script runs anew, over the localStorage
\* the last page left
reload ==
    /\ browser.loaded
    /\ browser' = Browser(browser.localStorage)
    /\ UNCHANGED Server

\* DOMContentLoaded: checkAuth() up to the await of apiRequest
checkAuth ==
    /\ ~browser.loaded
    /\ browser' = [browser EXCEPT
            !.loaded = TRUE,
            !.pending = IF browser.token = NoToken THEN @
                        ELSE @ \cup {apiRequest("checkAuth", NoBody)}]
    /\ UNCHANGED Server

\* checkAuth() from the answer of GET /users/profile on: the user of the
\* answer is stored, or logout() runs when the request failed
checkAuth_resolved(call) ==
    /\ call \in browser.pending /\ call.fn = "checkAuth"
    /\ browser' =
            IF Authenticated(call.header) /\ FoundUser(users, Decoded(call.header).userId)
            THEN [Settled(call) EXCEPT !.user = Decoded(call.header).userId]
            ELSE logout(Settled(call))
    /\ UNCHANGED Server

\* the login form is submitted: login(email, password) up to the await
loginFormSubmit(body) ==
    /\ browser.loaded
    /\ Cardinality(browser.pending) < MaxPending
    /\ browser' = [browser EXCEPT !.pending = @ \cup {apiRequest("login", body)}]
    /\ UNCHANGED Server

\* login(email, password) from the answer of POST /auth/login on
login_resolved(call) ==
    /\ call \in browser.pending /\ call.fn = "login"
    /\ LET body == call.body
           match == {id \in FindByEmail(users, body.email) :
                        ComparePassword(body.password, users[id].password)}
       IN IF validateUserLogin(body) = NoError /\ match # {}
          THEN \E id \in match :
                LET token == GenerateToken(id, users[id].role) IN
                /\ issued' = issued \cup {token}
                /\ browser' = [Settled(call) EXCEPT !.token = token, !.user = id,
                                                     !.localStorage = token]
          ELSE /\ browser' = Settled(call)
               /\ UNCHANGED issued
    /\ UNCHANGED <<users, cars, reqs, last, nextUser, nextCar, mail, now>>

\* the register form is submitted: register(userData) up to the await
registerFormSubmit(body) ==
    /\ browser.loaded
    /\ Cardinality(browser.pending) < MaxPending
    /\ browser' = [browser EXCEPT !.pending = @ \cup {apiRequest("register", body)}]
    /\ UNCHANGED Server

\* register(userData) from the answer of POST /auth/register on
register_resolved(call) ==
    /\ call \in browser.pending /\ call.fn = "register"
    /\ LET body == call.body
           user == NewUser(body)
           token == GenerateToken(nextUser, user.role)
       IN IF /\ validateUserRegistration(body) = NoError
             /\ FindByEmailOrUsername(users, body.email, body.username) = {}
             /\ nextUser <= MaxUsers + 1
          THEN /\ users' = (nextUser :> user) @@ users
               /\ mail' = sendWelcomeEmail(mail, nextUser)
               /\ nextUser' = nextUser + 1
               /\ issued' = issued \cup {token}
               /\ browser' = [Settled(call) EXCEPT !.token = token, !.user = nextUser,
                                                    !.localStorage = token]
          ELSE /\ browser' = Settled(call)
               /\ UNCHANGED <<users, mail, nextUser, issued>>
    /\ UNCHANGED <<cars, reqs, last, nextCar, now>>

\* a click on the logout entry of the user menu, which updateUIForUser shows
\* when state.user is set
logoutBtn ==
    /\ browser.loaded
    /\ browser.user # 0
    /\ browser' = logout(browser)
    /\ UNCHANGED Server

\* ------------------------------------------------------- the account service
\* The database holds the administrator's record: no request grants a role,
\* so a record of role admin is there from the start or never.
Admin == UserDoc("root", "root@x.io", HashPassword("secret1"), ROLE_ADMIN)

Init ==
    /\ users = (1 :> Admin)
    /\ cars = <<>>
    /\ issued = {}
    /\ reqs = [s \in Slots |-> Idle]
    /\ last = NoResponse
    /\ nextUser = 2
    /\ nextCar = 1
    /\ mail = <<>>
    /\ now = 0
    /\ browser = Browser(NoToken)

\* the requests of /auth and /users
Next ==
    \/ \E s \in Slots, body \in RegisterBodies : register(s, body)
    \/ \E s \in Slots : register_save(s)
    \/ \E body \in LoginBodies : login(body)
    \/ \E header \in Headers, body \in ProfileBodies : updateUserProfile(header, body)
    \/ \E header \in Headers : deleteUserAccount(header)

Spec == Init /\ [][Next]_vars

\* registration with the welcome notifications settling
NextMail ==
    \/ \E s \in Slots, body \in RegisterBodies : register(s, body)
    \/ \E s \in Slots : register_save(s)
    \/ \E user \in DOMAIN mail : sendEmail_sent(user)
    \/ \E user \in DOMAIN mail : sendEmail_failed(user)
    \/ \E header \in Headers : deleteUserAccount(header)

SpecMail == Init /\ [][NextMail]_vars

\* -------------------------------------------------------- the listing service
\* The database after ann and bob registered and the administrator logged
\* in: three records, and the three tokens their clients hold.
Ann == UserDoc("ann", "a@x.io", HashPassword("secret1"), ROLE_USER)

Bob == UserDoc("bob", "b@x.io", HashPassword("secret2"), ROLE_USER)

InitCars ==
    /\ users = (1 :> Admin) @@ (2 :> Ann) @@ (3 :> Bob)
    /\ cars = <<>>
    /\ issued = {GenerateToken(1, ROLE_ADMIN), GenerateToken(2, ROLE_USER),
                 GenerateToken(3, ROLE_USER)}
    /\ reqs = [s \in Slots |-> Idle]
    /\ last = NoResponse
    /\ nextUser = 4
    /\ nextCar = 1
    /\ mail = <<>>
    /\ now = 0
    /\ browser = Browser(NoToken)

\* the requests of /cars
NextCars ==
    \/ \E header \in Headers, body \in CarBodies : createCarListing(header, body)
    \/ \E s \in Slots, header \in Headers, body \in CarBodies, id \in CarIds :
            updateCarListing(s, header, body, id)
    \/ \E s \in Slots : updateCarListing_findByIdAndUpdate(s)
    \/ \E s \in Slots, header \in Headers, id \in CarIds : deleteCarListing(s, header, id)
    \/ \E s \in Slots : deleteCarListing_findByIdAndDelete(s)

SpecCars == InitCars /\ [][NextCars]_vars

\* -------------------------------------------------------- listing lookups
\* a body that passes validateCar and one that does not
LookupBodies == {[NoBody EXCEPT !.price = p] : p \in {-1, 10}}

\* PUT and DELETE /cars/:id for every id a client can put in the path
NextLookup ==
    \/ \E header \in Headers, body \in LookupBodies : createCarListing(header, body)
    \/ \E s \in Slots, header \in Headers, body \in LookupBodies, id \in Ids :
            updateCarListing(s, header, body, id)
    \/ \E s \in Slots : updateCarListing_findByIdAndUpdate(s)
    \/ \E s \in Slots, header \in Headers, id \in Ids : deleteCarListing(s, header, id)
    \/ \E s \in Slots : deleteCarListing_findByIdAndDelete(s)

SpecLookup == InitCars /\ [][NextLookup]_vars

\* -------------------------------------------------------------- list queries
ListedIds == 1..MaxListed

\* the queries that page through the listings
PageQueries ==
    {[NoQuery EXCEPT !.page = p, !.limit = l] :
        p \in {Absent, "1", "2", "3"}, l \in {Absent, "1", "2"}}

\* the queries that filter by status and price
FilterQueries ==
    {[NoQuery EXCEPT !.status = st, !.minPrice = a, !.maxPrice = b] :
        st \in {Absent, "available", "sold"}, a \in {Absent, "0", "20"},
        b \in {Absent, "0", "20", "30"}}

ListQueries ==
    PageQueries \cup FilterQueries
        \cup {[q EXCEPT !.minPrice = "20"] : q \in PageQueries}

\* The database after ann and bob registered and listed cars in turn, at
\* rising prices; the administrator and ann hold tokens.
InitList ==
    /\ users = (1 :> Admin) @@ (2 :> Ann) @@ (3 :> Bob)
    /\ cars = [id \in ListedIds |->
                  NewCar(id, [NoBody EXCEPT !.price = 10 * id,
                                            !.owner = IF id % 2 = 1 THEN 2 ELSE 3])]
    /\ issued = {GenerateToken(1, ROLE_ADMIN), GenerateToken(2, ROLE_USER)}
    /\ reqs = [s \in Slots |-> Idle]
    /\ last = NoResponse
    /\ nextUser = 4
    /\ nextCar = MaxListed + 1
    /\ mail = <<>>
    /\ now = 0
    /\ browser = Browser(NoToken)

\* the list requests, one at a time, next to the removal of listings
NextList ==
    \/ \E query \in ListQueries : getAllCarListings(1, query)
    \/ \E s \in Slots : getAllCarListings_countDocuments(s)
    \/ \E header \in Headers, query \in PageQueries : getUserCarListings(1, header, query)
    \/ \E s \in Slots : getUserCarListings_countDocuments(s)
    \/ \E s \in Slots, header \in Headers, id \in ListedIds :
            deleteCarListing(s, header, id)
    \/ \E s \in Slots : deleteCarListing_findByIdAndDelete(s)

SpecList == InitList /\ [][NextList]_vars

\* --------------------------------------------------------- removed listings
\* the requests that read listings next to the ones that remove and write
\* them, in the database after ann registered
InitGone ==
    /\ users = (1 :> Admin) @@ (2 :> Ann)
    /\ cars = <<>>
    /\ issued = {GenerateToken(2, ROLE_USER)}
    /\ reqs = [s \in Slots |-> Idle]
    /\ last = NoResponse
    /\ nextUser = 3
    /\ nextCar = 1
    /\ mail = <<>>
    /\ now = 0
    /\ browser = Browser(NoToken)

NextGone ==
    \/ \E header \in Headers, body \in LookupBodies : createCarListing(header, body)
    \/ \E s \in Slots, id \in CarIds : getCarListingById(s, id)
    \/ \E s \in Slots : getCarListingById_respond(s)
    \/ \E s \in Slots : getAllCarListings(s, NoQuery)
    \/ \E s \in Slots : getAllCarListings_countDocuments(s)
    \/ \E s \in Slots, header \in Headers, body \in LookupBodies, id \in CarIds :
            updateCarListing(s, header, body, id)
    \/ \E s \in Slots : updateCarListing_findByIdAndUpdate(s)
    \/ \E s \in Slots, header \in Headers, id \in CarIds : deleteCarListing(s, header, id)
    \/ \E s \in Slots : deleteCarListing_findByIdAndDelete(s)

SpecGone == InitGone /\ [][NextGone]_vars

\* ----------------------------------------------------------- the view counter
\* The database after ann registered: her record next to the
\* administrator's, and the token her client holds.
InitViews ==
    /\ users = (1 :> Admin) @@ (2 :> Ann)
    /\ cars = <<>>
    /\ issued = {GenerateToken(2, ROLE_USER)}
    /\ reqs = [s \in Slots |-> Idle]
    /\ last = NoResponse
    /\ nextUser = 3
    /\ nextCar = 1
    /\ mail = <<>>
    /\ now = 0
    /\ browser = Browser(NoToken)

\* the detail fetches of /cars/:id next to the requests that write listings
NextViews ==
    \/ \E header \in Headers, body \in CarBodies : createCarListing(header, body)
    \/ \E s \in Slots, id \in CarIds : getCarListingById(s, id)
    \/ \E s \in Slots : getCarListingById_respond(s)
    \/ \E s \in Slots, header \in Headers, body \in CarBodies, id \in CarIds :
            updateCarListing(s, header, body, id)
    \/ \E s \in Slots : updateCarListing_findByIdAndUpdate(s)
    \/ \E s \in Slots, header \in Headers, id \in CarIds : deleteCarListing(s, header, id)
    \/ \E s \in Slots : deleteCarListing_findByIdAndDelete(s)

SpecViews == InitViews /\ [][NextViews]_vars

\* ------------------------------------------------------ the profile update
\* Date.now() returns a later reading
tick ==
    /\ now < MaxClock
    /\ now' = now + 1
    /\ UNCHANGED <<users, cars, issued, reqs, last, nextUser, nextCar, mail, browser>>

\* the keys of a profile body that updateUserProfile writes
ProfileKeys == {"username", "email", "firstName", "lastName", "phone", "address"}

\* a body of PUT /users/profile that supplies every key: the email in mixed
\* case, the first name with blanks around it
FullProfile ==
    [NoBody EXCEPT !.username = "bob", !.email = "A@x.io", !.firstName = " Al ",
                   !.lastName = "", !.phone = "777", !.address = "work"]

\* the body that supplies the keys of FullProfile in keys and no other
Supplying(keys) ==
    [key \in DOMAIN NoBody |-> IF key \in keys THEN FullProfile[key] ELSE NoBody[key]]

\* bodies of PUT /users/profile: no key, one key, all keys but one and all
\* keys supplied; another email; a phone that is an object; a name too long
ProfileFieldBodies ==
    {Supplying(keys) : keys \in {k \in SUBSET ProfileKeys : Cardinality(k) \in {0, 1, 5, 6}}}
    \cup {[NoBody EXCEPT !.email = "b@x.io"], [NoBody EXCEPT !.phone = Uncastable],
          [NoBody EXCEPT !.firstName = LongName]}

\* ann's record after she filled in her profile
AnnProfile ==
    [Ann EXCEPT !.firstName = "Ann", !.lastName = "Lee", !.phone = "555",
                !.address = "home"]

\* The database holding the administrator's record and ann's, and the token
\* ann's client holds.
InitProfile ==
    /\ users = (1 :> Admin) @@ (2 :> AnnProfile)
    /\ cars = <<>>
    /\ issued = {GenerateToken(2, ROLE_USER)}
    /\ reqs = [s \in Slots |-> Idle]
    /\ last = NoResponse
    /\ nextUser = 3
    /\ nextCar = 1
    /\ mail = <<>>
    /\ now = 0
    /\ browser = Browser(NoToken)

NextProfile ==
    \/ \E header \in issued, body \in ProfileFieldBodies : updateUserProfile(header, body)
    \/ \E header \in issued : getUserProfile(header)
    \/ tick

SpecProfile == InitProfile /\ [][NextProfile]_vars

\* ------------------------------------------------------ listing status
\* bodies of POST /cars and PUT /cars/:id that name a status next to the
\* fields of the schema, and bodies that do not
StatusBodies ==
    {[NoBody EXCEPT !.price = p, !.status = st] :
        p \in {10, 20}, st \in CAR_STATUS \cup {Absent}}

\* the car routes that write listings, called with the tokens issued
NextStatus ==
    \/ \E header \in issued, body \in StatusBodies : createCarListing(header, body)
    \/ \E s \in Slots, header \in issued, body \in StatusBodies, id \in CarIds :
            updateCarListing(s, header, body, id)
    \/ \E s \in Slots : updateCarListing_findByIdAndUpdate(s)
    \/ \E s \in Slots, header \in issued, id \in CarIds : deleteCarListing(s, header, id)
    \/ \E s \in Slots : deleteCarListing_findByIdAndDelete(s)

SpecStatus == InitCars /\ [][NextStatus]_vars

\* ------------------------------------------------- deleted accounts
\* bodies of PUT /users/profile, among them one whose phone is an object
OrphanBodies == ProfileBodies \cup {[NoBody EXCEPT !.phone = Uncastable]}

\* the three account routes, called with the tokens issued
NextOrphans ==
    \/ \E header \in issued : getUserProfile(header)
    \/ \E header \in issued : deleteUserAccount(header)
    \/ \E header \in issued, body \in OrphanBodies : updateUserProfile(header, body)

\* ------------------------------------------------ the authentication gate
\* GET /health
health ==
    /\ last' = Response("health", "app:86", OK, "Server is running")
    /\ UNCHANGED <<users, cars, issued, reqs, nextUser, nextCar, mail, now, browser>>

\* The database after ann registered and the administrator logged in, and
\* the two tokens their clients hold.
InitGate ==
    /\ users = (1 :> Admin) @@ (2 :> Ann)
    /\ cars = <<>>
    /\ issued = {GenerateToken(1, ROLE_ADMIN), GenerateToken(2, ROLE_USER)}
    /\ reqs = [s \in Slots |-> Idle]
    /\ last = NoResponse
    /\ nextUser = 3
    /\ nextCar = 1
    /\ mail = <<>>
    /\ now = 0
    /\ browser = Browser(NoToken)

\* a body of POST /cars and PUT /cars/:id that validateCar accepts
GateCarBodies == {[NoBody EXCEPT !.price = 10]}

\* bodies of PUT /users/profile: no key, and a new username
GateProfileBodies == {NoBody, [NoBody EXCEPT !.username = "bob"]}

\* the routes behind authenticate, called with and without a token that
\* verifies, one request at a time
NextGate ==
    \/ \E header \in GateHeaders, body \in GateCarBodies : createCarListing(header, body)
    \/ \E header \in GateHeaders, body \in GateCarBodies, id \in CarIds :
            updateCarListing(1, header, body, id)
    \/ \E s \in Slots : updateCarListing_findByIdAndUpdate(s)
    \/ \E header \in GateHeaders, id \in CarIds : deleteCarListing(1, header, id)
    \/ \E s \in Slots : deleteCarListing_findByIdAndDelete(s)
    \/ \E header \in GateHeaders : getUserCarListings(1, header, NoQuery)
    \/ \E s \in Slots : getUserCarListings_countDocuments(s)
    \/ \E header \in GateHeaders : getUserProfile(header)
    \/ \E header \in GateHeaders, body \in GateProfileBodies :
            updateUserProfile(header, body)
    \/ \E header \in GateHeaders : deleteUserAccount(header)

SpecGate == InitGate /\ [][NextGate]_vars

\* the account routes over the two registered users
SpecOrphans == InitGate /\ [][NextOrphans]_vars

\* bodies of POST /auth/register and POST /auth/login that pass validation
GateRegisterBodies ==
    {[NoBody EXCEPT !.username = "bob", !.email = "b@x.io", !.password = "secret2"]}

GateLoginBodies ==
    {[NoBody EXCEPT !.email = "a@x.io", !.password = p] : p \in {"secret1", "secret2"}}

\* The database after ann registered and listed a car, and the tokens the
\* administrator's and ann's clients hold.
InitRoutes ==
    /\ users = (1 :> Admin) @@ (2 :> Ann)
    /\ cars = (1 :> NewCar(1, [NoBody EXCEPT !.price = 10, !.owner = 2]))
    /\ issued = {GenerateToken(1, ROLE_ADMIN), GenerateToken(2, ROLE_USER)}
    /\ reqs = [s \in Slots |-> Idle]
    /\ last = NoResponse
    /\ nextUser = 3
    /\ nextCar = 2
    /\ mail = <<>>
    /\ now = 0
    /\ browser = Browser(NoToken)

\* requests that carry no token that verifies, to every route of the three
\* routers and to GET /health, one request at a time
NextRoutes ==
    \/ \E header \in BadHeaders, body \in GateCarBodies : createCarListing(header, body)
    \/ \E header \in BadHeaders, body \in GateCarBodies, id \in CarIds :
            updateCarListing(1, header, body, id)
    \/ \E header \in BadHeaders, id \in CarIds : deleteCarListing(1, header, id)
    \/ \E header \in BadHeaders : getUserCarListings(1, header, NoQuery)
    \/ \E header \in BadHeaders : getUserProfile(header)
    \/ \E header \in BadHeaders, body \in GateProfileBodies :
            updateUserProfile(header, body)
    \/ \E header \in BadHeaders : deleteUserAccount(header)
    \/ \E body \in GateRegisterBodies : register(1, body)
    \/ \E s \in Slots : register_save(s)
    \/ \E body \in GateLoginBodies : login(body)
    \/ getAllCarListings(1, NoQuery)
    \/ \E s \in Slots : getAllCarListings_countDocuments(s)
    \/ \E id \in CarIds : getCarListingById(1, id)
    \/ \E s \in Slots : getCarListingById_respond(s)
    \/ health

SpecRoutes == InitRoutes /\ [][NextRoutes]_vars

\* ------------------------------------------------- failures after a save
\* the routes that write, with token signing and owner population failing
\* or not
NextFaults ==
    \/ \E body \in GateRegisterBodies : register(1, body)
    \/ \E s \in Slots : register_save(s)
    \/ \E s \in Slots : register_generateTokenThrows(s)
    \/ \E header \in issued, body \in LookupBodies : createCarListing(header, body)
    \/ \E header \in issued, body \in LookupBodies :
            createCarListing_populateRejects(header, body)
    \/ \E header \in issued, body \in LookupBodies, id \in CarIds :
            updateCarListing(1, header, body, id)
    \/ \E s \in Slots : updateCarListing_findByIdAndUpdate(s)
    \/ \E header \in issued, id \in CarIds : deleteCarListing(1, header, id)
    \/ \E s \in Slots : deleteCarListing_findByIdAndDelete(s)
    \/ \E header \in issued, body \in OrphanBodies : updateUserProfile(header, body)
    \/ \E header \in issued : deleteUserAccount(header)

\* the writing routes over the two registered users
SpecFaults == InitGate /\ [][NextFaults]_vars

\* ------------------------------------------------------ error translation
\* the routes on /cars/:id for every id a client can put in the path, and
\* requests whose body cannot be parsed
NextErrors ==
    \/ \E header \in issued, body \in GateCarBodies : createCarListing(header, body)
    \/ \E s \in Slots, id \in Ids : getCarListingById(s, id)
    \/ \E s \in Slots : getCarListingById_respond(s)
    \/ \E s \in Slots, header \in issued, body \in GateCarBodies, id \in Ids :
            updateCarListing(s, header, body, id)
    \/ \E s \in Slots : updateCarListing_findByIdAndUpdate(s)
    \/ \E s \in Slots, header \in issued, id \in Ids : deleteCarListing(s, header, id)
    \/ \E s \in Slots : deleteCarListing_findByIdAndDelete(s)
    \/ \E kind \in {"createCarListing", "updateCarListing"} : express_json(kind)

SpecErrors == InitCars /\ [][NextErrors]_vars

\* ------------------------------------------------- writers of the counter
\* bodies of POST /cars and PUT /cars/:id: two prices, and one that names a
\* view counter
CounterBodies ==
    {[NoBody EXCEPT !.price = p] : p \in {10, 20}}
        \cup {[NoBody EXCEPT !.price = 10, !.views = MaxViews]}

\* every route of the car router, called by the administrator, by ann and by
\* bob
NextCounter ==
    \/ \E header \in issued, body \in CounterBodies : createCarListing(header, body)
    \/ \E s \in Slots, id \in CarIds : getCarListingById(s, id)
    \/ \E s \in Slots : getCarListingById_respond(s)
    \/ getAllCarListings(1, NoQuery)
    \/ \E s \in Slots : getAllCarListings_countDocuments(s)
    \/ \E header \in issued : getUserCarListings(1, header, NoQuery)
    \/ \E s \in Slots : getUserCarListings_countDocuments(s)
    \/ \E header \in issued, body \in CounterBodies, id \in CarIds :
            updateCarListing(1, header, body, id)
    \/ \E s \in Slots : updateCarListing_findByIdAndUpdate(s)
    \/ \E header \in issued, id \in CarIds : deleteCarListing(1, header, id)
    \/ \E s \in Slots : deleteCarListing_findByIdAndDelete(s)

SpecCounter == InitCars /\ [][NextCounter]_vars

\* ------------------------------------------------------ middleware order
\* bodies of POST /cars and PUT /cars/:id that validateCar refuses
InvalidCarBodies ==
    {[NoBody EXCEPT !.price = -1], [NoBody EXCEPT !.price = 10, !.owner = 2],
     [NoBody EXCEPT !.price = 10, !.status = "sold"]}

\* bodies of PUT /users/profile that validateProfileUpdate refuses
InvalidProfileBodies ==
    {[NoBody EXCEPT !.username = "al"], [NoBody EXCEPT !.firstName = LongName]}

\* the three protected routes that take a body: without a token that
\* verifies they are called with invalid bodies only, with one they are
\* called with valid and invalid bodies
NextOrder ==
    \/ \E header \in BadHeaders, body \in InvalidCarBodies :
            createCarListing(header, body)
    \/ \E header \in BadHeaders, body \in InvalidCarBodies, id \in CarIds :
            updateCarListing(1, header, body, id)
    \/ \E header \in BadHeaders, body \in InvalidProfileBodies :
            updateUserProfile(header, body)
    \/ \E header \in issued, body \in InvalidCarBodies \cup CounterBodies :
            createCarListing(header, body)
    \/ \E header \in issued, body \in InvalidCarBodies \cup CounterBodies, id \in CarIds :
            updateCarListing(1, header, body, id)
    \/ \E s \in Slots : updateCarListing_findByIdAndUpdate(s)
    \/ \E header \in issued, body \in InvalidProfileBodies \cup GateProfileBodies :
            updateUserProfile(header, body)
    \/ \E s \in Slots, id \in CarIds : getCarListingById(s, id)
    \/ \E s \in Slots : getCarListingById_respond(s)

SpecOrder == InitGate /\ [][NextOrder]_vars

\* ------------------------------------------------------ page and limit
\* the values of page and limit a client can put in the query string: none,
\* positive, zero and negative
PagingQueries ==
    {[NoQuery EXCEPT !.page = p, !.limit = l] :
        p \in {Absent, "0", "1", "2"}, l \in {Absent, "-1", "0", "1", "2"}}

\* GET /cars with every such query, next to the removal of listings
NextPaging ==
    \/ \E query \in PagingQueries : getAllCarListings(1, query)
    \/ \E s \in Slots : getAllCarListings_countDocuments(s)
    \/ \E header \in issued, id \in ListedIds : deleteCarListing(2, header, id)
    \/ \E s \in Slots : deleteCarListing_findByIdAndDelete(s)

SpecPaging == InitList /\ [][NextPaging]_vars

\* ------------------------------------------------------ the client session
\* ann's token after its expiry time
AnnExpired == [GenerateToken(2, ROLE_USER) EXCEPT !.sig = "expired"]

\* The page is opened by ann's browser, whose localStorage holds no token,
\* the token of her last login, or that token expired.
InitClient ==
    /\ users = (1 :> Admin) @@ (2 :> Ann)
    /\ cars = <<>>
    /\ issued = {GenerateToken(2, ROLE_USER)}
    /\ reqs = [s \in Slots |-> Idle]
    /\ last = NoResponse
    /\ nextUser = 3
    /\ nextCar = 1
    /\ mail = <<>>
    /\ now = 0
    /\ browser \in {Browser(token) :
                        token \in {NoToken, GenerateToken(2, ROLE_USER), AnnExpired}}

NextClient ==
    \/ checkAuth
    \/ reload
    \/ \E call \in browser.pending : checkAuth_resolved(call)
    \/ \E body \in GateLoginBodies : loginFormSubmit(body)
    \/ \E call \in browser.pending : login_resolved(call)
    \/ \E body \in GateRegisterBodies : registerFormSubmit(body)
    \/ \E call \in browser.pending : register_resolved(call)
    \/ logoutBtn

SpecClient == InitClient /\ [][NextClient]_vars

\* ------------------------------------------- listings and deleted accounts
\* the requests that create and remove listings, next to the account
\* deletion, which leaves the tokens of the deleted account valid
NextOwners ==
    \/ \E header \in Headers, body \in CarBodies : createCarListing(header, body)
    \/ \E header \in Headers : deleteUserAccount(header)
    \/ \E s \in Slots, header \in Headers, id \in CarIds : deleteCarListing(s, header, id)
    \/ \E s \in Slots : deleteCarListing_findByIdAndDelete(s)

SpecOwners == InitCars /\ [][NextOwners]_vars

\* ------------------------------------------------------- the role allowlist
\* any authenticated role let through
Includes_Any(allowed, user) == TRUE

\* allowedRoles.includes(req.user.role)
Includes(allowed, user) == user.role \in allowed

\* the allowlists a route can be mounted with
Allowlists == SUBSET ROLES

\* a route mounted as authenticate, authorize(...allowed), handler: the
\* request up to the call of authorize
guardedRoute(s, header, allowed) ==
    /\ Free(s)
    /\ IF ~Authenticated(header)
       THEN /\ last' = AuthenticateFailure("authorize", header)
            /\ UNCHANGED reqs
       ELSE /\ reqs' = [reqs EXCEPT ![s] =
                   [Request("authorize", "authorize", NoBody, 0)
                       EXCEPT !.user = Decoded(header), !.allowed = allowed]]
            /\ UNCHANGED last
    /\ UNCHANGED <<users, cars, issued, nextUser, nextCar, mail, now, browser>>

\* a route mounted as authorize(...allowed), handler, with no authenticate
\* before it: req.user is undefined
openRoute(s, allowed) ==
    /\ Free(s)
    /\ reqs' = [reqs EXCEPT ![s] =
           [Request("authorize", "authorize", NoBody, 0) EXCEPT !.allowed = allowed]]
    /\ UNCHANGED <<users, cars, issued, last, nextUser, nextCar, mail, now, browser>>

\* authorize(...allowedRoles)(req, res, next)
authorize(s) ==
    /\ reqs[s].kind = "authorize" /\ reqs[s].pc = "authorize"
    /\ IF reqs[s].user = NoContext
       THEN /\ last' = Response("authorize", "authorize:32", UNAUTHORIZED, UNAUTHORIZED_ACCESS)
            /\ reqs' = [reqs EXCEPT ![s] = Idle]
       ELSE IF ~Includes(reqs[s].allowed, reqs[s].user)
       THEN /\ last' = Response("authorize", "authorize:39", FORBIDDEN,
                                 "You do not have permission to access this resource")
            /\ reqs' = [reqs EXCEPT ![s] = Idle]
       ELSE /\ reqs' = [reqs EXCEPT ![s].pc = "next"]
            /\ UNCHANGED last
    /\ UNCHANGED <<users, cars, issued, nextUser, nextCar, mail, now, browser>>

\* next(): the handler behind the gate answers
next(s) ==
    /\ reqs[s].kind = "authorize" /\ reqs[s].pc = "next"
    /\ last' = Response("authorize", "next", OK, "")
    /\ reqs' = [reqs EXCEPT ![s] = Idle]
    /\ UNCHANGED <<users, cars, issued, nextUser, nextCar, mail, now, browser>>

\* The database with one record of each role, and the tokens issued to them.
Pam == UserDoc("pam", "p@x.io", HashPassword("secret1"), "premium_user")

Moe == UserDoc("moe", "m@x.io", HashPassword("secret2"), "moderator")

InitAuthorize ==
    /\ users = (1 :> Admin) @@ (2 :> Ann) @@ (3 :> Pam) @@ (4 :> Moe)
    /\ cars = <<>>
    /\ issued = {GenerateToken(id, users[id].role) : id \in DOMAIN users}
    /\ reqs = [s \in Slots |-> Idle]
    /\ last = NoResponse
    /\ nextUser = 5
    /\ nextCar = 1
    /\ mail = <<>>
    /\ now = 0
    /\ browser = Browser(NoToken)

NextAuthorize ==
    \/ \E s \in Slots, header \in Headers, allowed \in Allowlists :
            guardedRoute(s, header, allowed)
    \/ \E s \in Slots, allowed \in Allowlists : openRoute(s, allowed)
    \/ \E s \in Slots : authorize(s)
    \/ \E s \in Slots : next(s)

SpecAuthorize == InitAuthorize /\ [][NextAuthorize]_vars

\* ================================================================= claims
\* what the caller sees of a response
Visible(resp) ==
    [status |-> resp.status, message |-> resp.message, details |-> resp.details,
     token |-> resp.token, user |-> resp.user, car |-> resp.car,
     cars |-> resp.cars, pagination |-> resp.pagination]

\* the records of a store other than id are the same in both stores
SameBut(before, after, id) ==
    /\ DOMAIN before \ {id} = DOMAIN after \ {id}
    /\ \A o \in DOMAIN before \ {id} : after[o] = before[o]

\* the request at s is answered in this step
Answered(s, kind) == reqs[s].kind = kind /\ reqs'[s] = Idle

\* C1: of the register requests carrying one email, also when both passed the
\* lookup before either saved, the save that finds the email (or the
\* username) free answers 201 with a token and persists exactly one record
\* holding that email; the save that finds it taken answers 409, issues no
\* token and persists nothing.
C1_RegisterSameEmailOnce ==
    [][\A s \in Slots :
        Answered(s, "register") =>
            LET body == reqs[s].body
                taken == \E o \in DOMAIN users :
                            \/ users[o].email = Lower(body.email)
                            \/ users[o].username = body.username
            IN IF taken
               THEN /\ last'.status = CONFLICT
                    /\ last'.token = NoToken
                    /\ users' = users
                    /\ issued' = issued
               ELSE /\ last'.status = CREATED
                    /\ last'.token = GenerateToken(last'.user, ROLE_USER)
                    /\ last'.user \notin DOMAIN users
                    /\ DOMAIN users' = DOMAIN users \cup {last'.user}
                    /\ SameBut(users, users', last'.user)
                    /\ users'[last'.user].email = Lower(body.email)]_vars

\* C1 witness: two register requests passed the lookup together; the first
\* save persisted the record, the second was answered 409 by the translation
\* of the duplicate-key error.
C1_Witness ==
    /\ last.kind = "register"
    /\ last.at = "errorHandler:24"
    /\ last.status = CONFLICT
    /\ last.message = "Email already exists"
    /\ \E o \in DOMAIN users : o # 1

\* no two distinct user records share a username or an email
UniqueUsers ==
    \A a, b \in DOMAIN users :
        a # b => /\ users[a].username # users[b].username
                 /\ users[a].email # users[b].email

\* record u, written under id, would share a username or an email with
\* another record of the store
WouldShare(us, id, u) ==
    \E o \in DOMAIN us \ {id} :
        us[o].username = u.username \/ us[o].email = u.email

\* C2: in every reachable state no two distinct user records share a username
\* or an email; a register save or a profile update that would make two
\* records share one is answered 409 and leaves the user store unchanged.
C2_UniqueUsernameAndEmail ==
    /\ []UniqueUsers
    /\ [][/\ \A s \in Slots :
                (Answered(s, "register")
                    /\ WouldShare(users, nextUser, NewUser(reqs[s].body)))
                => last'.status = CONFLICT /\ users' = users
           /\ \A header \in Headers, body \in ProfileBodies :
                LET id == header.userId IN
                (/\ Authenticated(header)
                 /\ id \in DOMAIN users
                 /\ validateUserProfileUpdate(body) = NoError
                 /\ body.username # "" /\ body.email # ""
                 /\ WouldShare(users, id, ApplyProfile(users[id], body))
                 /\ updateUserProfile(header, body))
                => last'.status = CONFLICT /\ users' = users]_vars

\* C2 witness: a profile update that asked for another record's username or
\* email was answered 409 while both records are in the store.
C2_Witness ==
    /\ last.kind = "updateUserProfile"
    /\ last.status = CONFLICT
    /\ \E a, b \in DOMAIN users : a # b

\* the subject of header is neither the owner of listing id nor an admin
Stranger(header, id) ==
    /\ Authenticated(header)
    /\ id \in DOMAIN cars
    /\ cars[id].owner # header.userId
    /\ header.role # ROLE_ADMIN

\* the subject of header is the owner of listing id, or an admin
Entitled(header, id) ==
    /\ Authenticated(header)
    /\ id \in DOMAIN cars
    /\ cars[id].owner = header.userId \/ header.role = ROLE_ADMIN

\* C3 as stated: a PUT or DELETE on an existing listing by an authenticated
\* subject who is neither its owner nor an admin is answered 403 and leaves
\* the listing as it was.
C3_StrangerAlways403 ==
    [][\A header \in Headers, id \in CarIds :
        Stranger(header, id) =>
            \A s \in Slots :
                /\ \A body \in CarBodies :
                    updateCarListing(s, header, body, id)
                    => last'.status = FORBIDDEN /\ cars' = cars
                /\ deleteCarListing(s, header, id)
                    => last'.status = FORBIDDEN /\ cars' = cars]_vars

\* C3 amended: a DELETE, or a PUT whose body passes validateCar, on an
\* existing listing by an authenticated subject who is neither its owner nor
\* an admin is answered 403; a PUT whose body fails validateCar is answered
\* 400; in each case the request ends there and the listing is as it was.
C3_StrangerForbidden ==
    [][\A header \in Headers, id \in CarIds :
        Stranger(header, id) =>
            \A s \in Slots :
                /\ \A body \in CarBodies :
                    updateCarListing(s, header, body, id)
                    => /\ last'.status = IF body.price >= 0 /\ body.owner = 0
                                          THEN FORBIDDEN ELSE BAD_REQUEST
                       /\ cars' = cars /\ reqs' = reqs
                /\ deleteCarListing(s, header, id)
                    => /\ last'.status = FORBIDDEN
                       /\ cars' = cars /\ reqs' = reqs]_vars

\* C3 witness: a stranger's DELETE was answered 403 and the listing is there.
C3_Witness ==
    /\ last.at = "deleteCarListing:146"
    /\ last.status = FORBIDDEN
    /\ DOMAIN cars # {}

C5_AuthorizeAllowlist ==
    [][\A s \in Slots :
        (reqs[s].pc = "authorize" /\ reqs'[s] # reqs[s])
        => IF reqs[s].user = NoContext
           THEN last'.status = UNAUTHORIZED /\ reqs'[s] = Idle
           ELSE IF reqs[s].user.role \in reqs[s].allowed
           THEN reqs'[s] = [reqs[s] EXCEPT !.pc = "next"] /\ last' = last
           ELSE last'.status = FORBIDDEN /\ reqs'[s] = Idle]_vars

\* C5 witness: behind authorize(admin) one request was answered 403 while
\* the request of an admin token was passed on to next.
C5_Witness ==
    /\ last.at = "authorize:39"
    /\ last.status = FORBIDDEN
    /\ \E s \in Slots : /\ reqs[s].pc = "next"
                         /\ reqs[s].user.role = ROLE_ADMIN
                         /\ reqs[s].allowed = {ROLE_ADMIN}

\* the detail fetches of listing id whose store operation is this step
Fetching(id) ==
    {s \in Slots : /\ reqs[s] = Idle
                   /\ reqs'[s].kind = "getCarListingById"
                   /\ reqs'[s].id = id}

\* C6: every GET /cars/:id on an existing listing raises its view counter by
\* exactly one, whatever other requests are in flight, and no other step
\* changes the counter, so N such requests raise it by exactly N; each is
\* answered 200 with the counter value right after its own increment.
C6_ViewsCountFetches ==
    [][/\ \A id \in DOMAIN cars \cap DOMAIN cars' :
            cars'[id].views = cars[id].views + Cardinality(Fetching(id))
       /\ \A id \in CarIds : \A s \in Fetching(id) :
            /\ id \in DOMAIN cars
            /\ reqs'[s].found = [id |-> id, views |-> cars[id].views + 1]
       /\ \A s \in Slots :
            Answered(s, "getCarListingById")
            => last'.status = OK /\ last'.car = reqs[s].found]_vars

\* C6 witness: two detail fetches of one listing are in flight together, the
\* counter stands at 2, and the two hold the values 1 and 2.
C6_Witness ==
    /\ \A s \in Slots : reqs[s].kind = "getCarListingById" /\ reqs[s].id = 1
    /\ 1 \in DOMAIN cars /\ cars[1].views = 2
    /\ {reqs[s].found.views : s \in Slots} = {1, 2}

\* C7: a listing enters the store with the subject of the token of its POST
\* /cars as owner, and no step changes the owner of a stored listing.
C7_OwnerIsCreatorForever ==
    [][/\ \A id \in DOMAIN cars \cap DOMAIN cars' : cars'[id].owner = cars[id].owner
       /\ \A id \in DOMAIN cars' \ DOMAIN cars :
            /\ last'.kind = "createCarListing" /\ last'.status = CREATED
            /\ last'.car.id = id
            /\ cars'[id].owner = last'.user
            /\ \E header \in issued, body \in CarBodies :
                    createCarListing(header, body) /\ header.userId = last'.user]_vars

\* C7 witness: an update was answered 200 on a listing whose owner is not
\* the administrator.
C7_Witness ==
    /\ last.kind = "updateCarListing" /\ last.status = OK
    /\ \E id \in DOMAIN cars : cars[id].owner = 2 /\ cars[id].price = 20

\* C8 as stated: a POST /cars with a valid token and a body that is valid but
\* for an owner key is answered 201, and the listing it creates has the
\* subject of the token as owner.
C8_SuppliedOwnerAccepted ==
    [][\A header \in Headers, body \in CarBodies :
        (/\ Authenticated(header)
         /\ body.price >= 0 /\ body.owner # 0
         /\ createCarListing(header, body))
        => /\ last'.status = CREATED
           /\ nextCar \in DOMAIN cars'
           /\ cars'[nextCar].owner = header.userId]_vars

\* C8 amended: a POST /cars with a valid token and a body that is valid but
\* for an owner key is answered 400 by validateCar and creates no listing;
\* the same body without the owner key is answered 201 and creates a
\* listing owned by the subject of the token.
C8_SuppliedOwnerRejected ==
    [][\A header \in Headers, body \in CarBodies :
        (/\ Authenticated(header)
         /\ body.price >= 0
         /\ createCarListing(header, body))
        => IF body.owner # 0
           THEN /\ last'.status = BAD_REQUEST
                /\ last'.message = VALIDATION_ERROR
                /\ last'.details = {"owner"}
                /\ cars' = cars
           ELSE /\ last'.status = CREATED
                /\ nextCar \in DOMAIN cars'
                /\ cars'[nextCar].owner = header.userId]_vars

\* C8 witness: a POST /cars was answered 400 by validateCar for its owner
\* key, and the one listing of the store is the one created before it.
C8_Witness ==
    /\ last.kind = "createCarListing"
    /\ last.at = "validateCar:47"
    /\ last.status = BAD_REQUEST
    /\ last.details = {"owner"}
    /\ DOMAIN cars = {1}

\* C9 as stated: the owner of a listing is a record of the user store at the
\* moment the listing is created.
C9_OwnerExistsAtCreation ==
    [][\A id \in DOMAIN cars' \ DOMAIN cars :
        cars'[id].owner \in DOMAIN users']_vars

\* C9 witness: a POST /cars was answered 201 for a subject that has no
\* record in the user store, and the listing it created is in the store.
C9_Witness ==
    /\ last.kind = "createCarListing"
    /\ last.status = CREATED
    /\ last.user \notin DOMAIN users
    /\ last.car.id \in DOMAIN cars
    /\ cars[last.car.id].owner = last.user

\* C10: a login whose body passes validateLogin and whose email matches no
\* user, and one whose email matches a user whose password does not
\* compare, are answered alike: 401, the same message, no token, no user;
\* no token is issued.
C10_LoginFailuresAlike ==
    [][\A body \in LoginBodies :
        LET match == {o \in DOMAIN users : users[o].email = Lower(body.email)}
            failing == \/ match = {}
                       \/ \E o \in match :
                            users[o].password # HashPassword(body.password)
        IN (validateUserLogin(body) = NoError /\ failing /\ login(body))
           => /\ Visible(last') = Visible(Response("login", "", UNAUTHORIZED,
                                                  INVALID_CREDENTIALS))
              /\ issued' = issued]_vars

\* C10 witness: a login with the email of a stored user and a wrong password
\* was answered 401.
C10_Witness ==
    /\ last.at = "login:68"
    /\ last.status = UNAUTHORIZED
    /\ \E o \in DOMAIN users : o # 1

\* C11 as stated: an authenticated PUT or DELETE on /cars/:id whose id
\* resolves to no listing is answered 404, whoever the caller and whatever the
\* body.
C11_MissingAlways404 ==
    [][\A header \in Headers, id \in Ids :
        (Authenticated(header) /\ id \notin DOMAIN cars) =>
            \A s \in Slots :
                /\ \A body \in LookupBodies :
                    updateCarListing(s, header, body, id)
                    => last'.status = NOT_FOUND
                /\ deleteCarListing(s, header, id)
                    => last'.status = NOT_FOUND]_vars

\* C11 amended: an authenticated PUT or DELETE on /cars/:id whose id
\* resolves to no listing is never answered 403, whoever the caller: when the
\* id is well formed, a DELETE and a PUT whose body passes validateCar are
\* answered 404; a PUT whose body fails validateCar is answered 400 whatever
\* the id; a DELETE, or a PUT with a passing body, on an id that is no
\* ObjectId is answered 500.  The request ends there and the store is as it
\* was.
C11_MissingNever403 ==
    [][\A header \in Headers, id \in Ids :
        (Authenticated(header) /\ id \notin DOMAIN cars) =>
            \A s \in Slots :
                /\ \A body \in LookupBodies :
                    updateCarListing(s, header, body, id)
                    => /\ last'.status =
                            IF body.price < 0 THEN BAD_REQUEST
                            ELSE IF id = MalformedId THEN INTERNAL_SERVER_ERROR
                            ELSE NOT_FOUND
                       /\ cars' = cars /\ reqs' = reqs
                /\ deleteCarListing(s, header, id)
                    => /\ last'.status =
                            IF id = MalformedId THEN INTERNAL_SERVER_ERROR
                            ELSE NOT_FOUND
                       /\ cars' = cars /\ reqs' = reqs]_vars

\* C11 witness: a PUT on the id of a listing that was deleted was answered
\* 404.
C11_Witness ==
    /\ last.at = "updateCarListing:102"
    /\ last.status = NOT_FOUND
    /\ nextCar > 1 /\ DOMAIN cars = {}

\* header is the token of a subject that is no admin and does not own a
\* listing of id
Outsider(header, id) ==
    /\ Authenticated(header)
    /\ header.role # ROLE_ADMIN
    /\ id \in DOMAIN cars => cars[id].owner # header.userId

\* the answers to the PUTs with a passing body and to the DELETEs of an
\* outsider, on a well-formed id: status found when a listing has the id,
\* status missing when none has; neither carries a listing, and the request
\* ends there
OutsiderAnswered(found, missing) ==
    \A header \in Headers, id \in CarIds :
        Outsider(header, id) =>
            LET status == IF id \in DOMAIN cars THEN found ELSE missing IN
            \A s \in Slots :
                /\ \A body \in LookupBodies :
                    (body.price >= 0 /\ updateCarListing(s, header, body, id))
                    => /\ last'.status = status /\ last'.car = NoCar
                       /\ cars' = cars /\ reqs' = reqs
                /\ deleteCarListing(s, header, id)
                    => /\ last'.status = status /\ last'.car = NoCar
                       /\ cars' = cars /\ reqs' = reqs

Removed(id) == id < nextCar /\ id \notin DOMAIN cars

\* C13: the write of a DELETE /cars/:id is answered 200 and takes the listing
\* from the store; from then on the listing is never in the store again,
\* every GET /cars/:id for it is answered 404 and changes no listing (so no
\* view counter), and the page every later GET /cars reads from the store,
\* which is the page it answers with, does not hold it.
C13_DeletedStaysGone ==
    [][/\ \A s \in Slots :
            Answered(s, "deleteCarListing")
            => last'.status = OK /\ reqs[s].id \notin DOMAIN cars'
       /\ \A id \in CarIds :
            Removed(id) =>
                /\ id \notin DOMAIN cars'
                /\ \A s \in Slots :
                        getCarListingById(s, id)
                        => /\ last'.status = NOT_FOUND
                           /\ cars' = cars /\ reqs' = reqs
       /\ \A s \in Slots :
            /\ (reqs[s] = Idle /\ reqs'[s].kind = "getAllCarListings")
                => \A i \in DOMAIN reqs'[s].page : reqs'[s].page[i] \in DOMAIN cars
            /\ Answered(s, "getAllCarListings")
                => last'.cars = reqs[s].page]_vars

\* C13 witness: a GET /cars/:id was answered 404 for a listing that was
\* created and removed.
C13_Witness ==
    /\ last.at = "getCarListingById:81"
    /\ last.status = NOT_FOUND
    /\ Removed(1)

\* the list request at s reads its page from the store in this step
Finding(s, kind) == reqs[s] = Idle /\ reqs'[s].kind = kind

\* the ids a list request in flight selects from the store: the matches of
\* its filter (GET /cars), the listings of its subject (GET /cars/user/listings)
Selected(req, store) ==
    IF req.kind = "getAllCarListings"
    THEN {id \in DOMAIN store : Matches(store[id], req.query)}
    ELSE {id \in DOMAIN store : store[id].owner = req.user.userId}

\* position n, counted from 1, of a set of ids ordered by creation time
\* descending: the id that has n - 1 later ids before it
Position(ids, n) ==
    CHOOSE id \in ids : Cardinality({other \in ids : other > id}) = n - 1

\* the larger and the smaller of two numbers
Larger(a, b)  == IF a >= b THEN a ELSE b
Smaller(a, b) == IF a <= b THEN a ELSE b

\* C14: a list request with page p >= 1 and limit L >= 1 (1 and 10 when
\* absent) reads from the store, of the T listings it selects, the
\* min(L, max(0, T - (p-1)*L)) at positions (p-1)*L+1 .. p*L by creation
\* time descending; it answers 200 with that page and with pagination
\* {page: p, limit: L, total, pages}, total being the number T of listings
\* selected when it counts and pages the least n with n*L >= T.  With the
\* store unchanged between the two reads both T are the same.
C14_PageOfMatches ==
    [][\A s \in Slots : \A kind \in {"getAllCarListings", "getUserCarListings"} :
        /\ Finding(s, kind) =>
            LET p == PageOf(reqs'[s].query)
                L == LimitOf(reqs'[s].query)
                ids == Selected(reqs'[s], cars)
                T == Cardinality(ids)
                page == reqs'[s].page
            IN /\ Len(page) = Smaller(L, Larger(0, T - (p - 1) * L))
               /\ \A i \in 1..Len(page) : page[i] = Position(ids, (p - 1) * L + i)
        /\ Answered(s, kind) =>
            LET p == PageOf(reqs[s].query)
                L == LimitOf(reqs[s].query)
                T == Cardinality(Selected(reqs[s], cars))
            IN /\ last'.status = OK
               /\ last'.cars = reqs[s].page
               /\ last'.pagination.page = p
               /\ last'.pagination.limit = L
               /\ last'.pagination.total = T
               /\ last'.pagination.pages * L >= T
               /\ (last'.pagination.pages - 1) * L < T \/ last'.pagination.pages = 0]_vars

\* C14 witness: page 2 with limit 2 over the three listings of the store was
\* answered with the oldest listing alone and {page: 2, limit: 2, total: 3,
\* pages: 2}.
C14_Witness ==
    /\ last.kind = "getAllCarListings"
    /\ last.cars = <<1>>
    /\ last.pagination = [page |-> 2, limit |-> 2, total |-> 3, pages |-> 2]
    /\ DOMAIN cars = {1, 2, 3}

\* listing car satisfies every filter query supplies
Satisfies(car, query) ==
    /\ query.status # Absent => car.status = query.status
    /\ query.minPrice # Absent => NumberOf(query.minPrice) <= car.price
    /\ query.maxPrice # Absent => car.price <= NumberOf(query.maxPrice)

\* C15: the page a GET /cars reads holds only listings that satisfy every
\* supplied filter (minPrice <= price, price <= maxPrice, status equal; each
\* bound inclusive, either usable alone, a bound of 0 honoured); read with
\* the default page and limit over fewer than 10 listings it holds every
\* stored listing that satisfies them; and the total it answers with counts
\* exactly the stored listings that satisfy them.
C15_PriceAndStatusFilter ==
    [][\A s \in Slots :
        /\ Finding(s, "getAllCarListings") =>
            LET query == reqs'[s].query
                page == reqs'[s].page
                held == {page[i] : i \in 1..Len(page)}
            IN /\ \A id \in held : id \in DOMAIN cars /\ Satisfies(cars[id], query)
               /\ (query.page = Absent /\ query.limit = Absent)
                    => \A id \in DOMAIN cars : Satisfies(cars[id], query) => id \in held
        /\ Answered(s, "getAllCarListings") =>
            last'.pagination.total =
                Cardinality({id \in DOMAIN cars : Satisfies(cars[id], reqs[s].query)})]_vars

\* C15 witness: minPrice=20 and maxPrice=30 over listings priced 10, 20 and
\* 30 was answered with the two priced 20 and 30.
C15_Witness ==
    /\ last.kind = "getAllCarListings"
    /\ last.cars = <<3, 2>>
    /\ last.pagination.total = 2
    /\ \A id \in {1, 2, 3} : id \in DOMAIN cars /\ cars[id].price = 10 * id

\* C16: a register request that saves the user answers, in the step that
\* saves, 201 with a token for the saved user while the welcome notification
\* is still pending; and a step in which a notification settles, sent or
\* failed, changes neither the users, the tokens issued, the requests in
\* flight nor the response sent.  A notification that never settles is a
\* behaviour without such a step.
C16_MailNeverAffectsRegistration ==
    [][/\ \A s \in Slots :
            (reqs[s].kind = "register" /\ reqs'[s] = Idle /\ nextUser' # nextUser) =>
                /\ last'.status = CREATED
                /\ last'.user = nextUser
                /\ last'.token = GenerateToken(nextUser, users'[nextUser].role)
                /\ nextUser \in DOMAIN users'
                /\ mail'[nextUser] = "pending"
       /\ (\E user \in DOMAIN mail : mail[user] = "pending" /\ mail'[user] # "pending") =>
                UNCHANGED <<users, issued, reqs, last>>]_vars

\* C16 witness: the notification of the user just registered has failed,
\* the response is the 201 with the token and the user is stored.
C16_Witness ==
    /\ last.status = CREATED
    /\ last.at = "register:40"
    /\ last.user \in DOMAIN users
    /\ last.token \in issued
    /\ last.user \in DOMAIN mail
    /\ mail[last.user] = "rejected"

\* the token header was signed by the service and has not expired
Valid(header) == header \in issued

\* the request context of header: the subject and the role the token embeds
Context(header) == [userId |-> header.userId, role |-> header.role]

\* the gate let the request through: the response, if any, is not its 401
Passed == last'.at \notin {"authenticate:10", "authenticate:20"}

\* a step of the route kind that changes the state leaves its response in
\* last, new or next to a changed store, or its request in a slot that was
\* idle
Route(kind) ==
    \/ last'.kind = kind /\ <<last, users, cars>>' # <<last, users, cars>>
    \/ \E s \in Slots : reqs[s] = Idle /\ reqs'[s].kind = kind

\* C17: whatever the user store holds (the subject present, deleted, or with
\* changed fields), a request to a route behind the gate passes the gate if
\* its token was signed by the service and has not expired, and is answered
\* 401 by the gate otherwise; a request that passes acts for the subject id
\* and the role of the token: a listing created is owned by the subject, the
\* profile read, updated or deleted is the subject's, the listings listed are
\* looked up for the context of the token, and a PUT or DELETE of a listing
\* goes on to the store only if the subject owns it or the role is admin.
C17_GateDependsOnTokenOnly ==
    [][/\ Route("createCarListing") =>
            \A header \in GateHeaders, body \in GateCarBodies :
            createCarListing(header, body) =>
                IF Valid(header)
                THEN Passed /\ cars'[nextCar].owner = header.userId
                ELSE ~Passed /\ last'.status = UNAUTHORIZED
       /\ Route("getUserProfile") =>
            \A header \in GateHeaders :
            getUserProfile(header) =>
                IF Valid(header)
                THEN Passed /\ last'.user \in {0, header.userId}
                ELSE ~Passed /\ last'.status = UNAUTHORIZED
       /\ Route("deleteUserAccount") =>
            \A header \in GateHeaders :
            deleteUserAccount(header) =>
                IF Valid(header)
                THEN Passed /\ DOMAIN users' = DOMAIN users \ {header.userId}
                ELSE ~Passed /\ last'.status = UNAUTHORIZED
       /\ Route("updateUserProfile") =>
            \A header \in GateHeaders, body \in GateProfileBodies :
            updateUserProfile(header, body) =>
                IF Valid(header)
                THEN Passed /\ SameBut(users, users', header.userId)
                ELSE ~Passed /\ last'.status = UNAUTHORIZED
       /\ Route("getUserCarListings") =>
            \A header \in GateHeaders, s \in Slots :
            getUserCarListings(s, header, NoQuery) =>
                IF Valid(header)
                THEN reqs'[s].user = Context(header) /\ last' = last
                ELSE ~Passed /\ last'.status = UNAUTHORIZED
       /\ Route("deleteCarListing") =>
            \A header \in GateHeaders, id \in CarIds, s \in Slots :
            deleteCarListing(s, header, id) =>
                IF ~Valid(header)
                THEN ~Passed /\ last'.status = UNAUTHORIZED
                ELSE IF reqs'[s] = Idle
                THEN Passed
                ELSE /\ last' = last
                     /\ cars[id].owner = header.userId \/ header.role = ROLE_ADMIN
       /\ Route("updateCarListing") =>
            \A header \in GateHeaders, id \in CarIds, body \in GateCarBodies, s \in Slots :
            updateCarListing(s, header, body, id) =>
                IF ~Valid(header)
                THEN ~Passed /\ last'.status = UNAUTHORIZED
                ELSE IF reqs'[s] = Idle
                THEN Passed
                ELSE /\ last' = last
                     /\ cars[id].owner = header.userId \/ header.role = ROLE_ADMIN]_vars

\* C17 witness: the token of a deleted account passed the gate; the profile
\* handler looked the subject up and found no record.
C17_Witness ==
    /\ last.at = "getUserProfile:10"
    /\ last.status = NOT_FOUND
    /\ 2 \notin DOMAIN users
    /\ GenerateToken(2, ROLE_USER) \in issued

\* the response is the 401 of the gate and the stores and the requests in
\* flight are what they were: no handler was entered
Refused ==
    /\ last'.status = UNAUTHORIZED
    /\ last'.at \in {"authenticate:10", "authenticate:20"}
    /\ UNCHANGED <<users, cars, reqs, issued>>

\* the routes mounted without the gate
PublicRoutes ==
    {"getAllCarListings", "getCarListingById", "register", "login", "health"}

\* every request of this step to a route behind the gate whose header
\* carries no token that verifies is refused
BadHeaderRefused ==
    /\ Route("createCarListing") =>
            \A header \in BadHeaders, body \in GateCarBodies :
                createCarListing(header, body) => Refused
    /\ Route("getUserProfile") =>
            \A header \in BadHeaders : getUserProfile(header) => Refused
    /\ Route("deleteUserAccount") =>
            \A header \in BadHeaders : deleteUserAccount(header) => Refused
    /\ Route("updateUserProfile") =>
            \A header \in BadHeaders, body \in GateProfileBodies :
                updateUserProfile(header, body) => Refused
    /\ Route("getUserCarListings") =>
            \A header \in BadHeaders, s \in Slots :
                getUserCarListings(s, header, NoQuery) => Refused
    /\ Route("deleteCarListing") =>
            \A header \in BadHeaders, id \in CarIds, s \in Slots :
                deleteCarListing(s, header, id) => Refused
    /\ Route("updateCarListing") =>
            \A header \in BadHeaders, id \in CarIds, body \in GateCarBodies, s \in Slots :
                updateCarListing(s, header, body, id) => Refused

\* C18: a request to POST /cars, PUT or DELETE /cars/:id, GET
\* /cars/user/listings, GET or PUT /users/profile or DELETE /users/account
\* whose Authorization header is absent, is the scheme word alone, or carries
\* a token that fails verification (forged or expired) is answered 401 by
\* the gate and changes neither store nor enters the handler; the responses
\* of GET /cars, GET /cars/:id, register, login and health, which are sent
\* to requests without a token, are never the 401 of the gate.
C18_ProtectedRoutesRefuse ==
    /\ [](last.kind \in PublicRoutes
            => last.at \notin {"authenticate:10", "authenticate:20"})
    /\ [][BadHeaderRefused]_vars

\* C18 witness: a DELETE /cars/:id with an expired token was refused while
\* the listing it names is in the store.
C18_Witness ==
    /\ last.kind = "deleteCarListing"
    /\ last.at = "authenticate:20"
    /\ last.status = UNAUTHORIZED
    /\ 1 \in DOMAIN cars
    /\ \A s \in Slots : reqs[s] = Idle

\* C19: a GET or PUT /users/profile and a DELETE /users/account leave every
\* user record other than that of the token's subject, and every listing,
\* unchanged; the profile read is the subject's; an account deletion answered
\* 200 removes the subject's record and no other, and the listings the
\* subject owns stay in the store.
C19_OnlyOwnRecord ==
    [][/\ Route("getUserProfile") =>
            \A header \in GateHeaders :
            getUserProfile(header) =>
                /\ users' = users /\ cars' = cars
                /\ last'.status = OK => last'.user = header.userId
       /\ Route("updateUserProfile") =>
            \A header \in GateHeaders, body \in GateProfileBodies :
            updateUserProfile(header, body) =>
                /\ SameBut(users, users', header.userId)
                /\ DOMAIN users' = DOMAIN users
                /\ cars' = cars
                /\ last'.status = OK => last'.user = header.userId
       /\ Route("deleteUserAccount") =>
            \A header \in GateHeaders :
            deleteUserAccount(header) =>
                /\ SameBut(users, users', header.userId)
                /\ cars' = cars
                /\ last'.status = OK =>
                        /\ header.userId \in DOMAIN users
                        /\ DOMAIN users' = DOMAIN users \ {header.userId}]_vars

\* C19 witness: ann's account was deleted; the administrator's record and
\* the listing ann owns are in the store.
C19_Witness ==
    /\ last.at = "deleteUserAccount:73"
    /\ DOMAIN users = {1}
    /\ users[1] = Admin
    /\ \E id \in DOMAIN cars : cars[id].owner = 2

\* the value the schema stores for value supplied under key: the email in
\* lower case, the names and the phone without the blanks around them
AsStored(key, value) ==
    IF key = "email" THEN Lower(value)
    ELSE IF key \in {"firstName", "lastName", "phone"} THEN Trim(value)
    ELSE value

\* C20 as stated: a PUT /users/profile answered 200 leaves every key absent
\* from the body at its stored value, gives every supplied key the supplied
\* value, and sets the update timestamp to the time of the update.
C20_SuppliedValuesVerbatim ==
    [][Route("updateUserProfile") =>
        \A header \in issued, body \in ProfileFieldBodies :
        (updateUserProfile(header, body) /\ last'.status = OK) =>
            LET before == users[header.userId]
                after == users'[header.userId]
            IN /\ \A key \in ProfileKeys :
                    after[key] = IF body[key] = Absent THEN before[key] ELSE body[key]
               /\ after.updatedAt = now]_vars

\* C20: a PUT /users/profile answered 200 leaves every key absent from the
\* body at its stored value, gives every supplied key the supplied value as
\* the schema stores it (the email in lower case, firstName, lastName and
\* phone trimmed), leaves password and role alone and sets the update
\* timestamp to the time of the update; one not answered 200 changes nothing.
C20_SuppliedValuesAsStored ==
    [][Route("updateUserProfile") =>
        \A header \in issued, body \in ProfileFieldBodies :
        updateUserProfile(header, body) =>
            IF last'.status # OK THEN users' = users
            ELSE LET before == users[header.userId]
                     after == users'[header.userId]
                 IN /\ \A key \in ProfileKeys :
                        after[key] = IF body[key] = Absent THEN before[key]
                                     ELSE AsStored(key, body[key])
                    /\ after.password = before.password
                    /\ after.role = before.role
                    /\ after.updatedAt = now]_vars

\* C20 witness: an update was answered 200 at a later time than the record
\* was created; the first name is the trimmed one supplied, the last name
\* and the address are the stored ones, the timestamp is the time of the
\* update.
C20_Witness ==
    /\ last.at = "updateUserProfile:51"
    /\ users[2].firstName = "Al"
    /\ users[2].lastName = "Lee"
    /\ users[2].address = "home"
    /\ users[2].updatedAt = now
    /\ now > 0

\* header is a token the service issued whose subject has no record
Orphan(header) == header \in issued /\ header.userId \notin DOMAIN users

C22_StatusSettable ==
    [][\A header \in issued, id \in CarIds : Entitled(header, id) =>
        \A s \in Slots :
            /\ \A body \in StatusBodies :
                (body.status # Absent /\ updateCarListing(s, header, body, id))
                    => reqs'[s].kind = "updateCarListing" /\ reqs'[s].body = body
            /\ (Answered(s, "updateCarListing") /\ reqs[s].id = id
                    /\ reqs[s].body.status # Absent /\ id \in DOMAIN cars')
                    => cars'[id].status = reqs[s].body.status]_vars

\* C22 witness: the owner's PUT naming a status was answered 400 by the
\* validator for the key status, and the listing is in the store.
C22_Witness ==
    /\ last.kind = "updateCarListing"
    /\ last.at = "validateCar:47"
    /\ last.status = BAD_REQUEST
    /\ last.details = {"status"}
    /\ 1 \in DOMAIN cars

\* the routes that write to a store
WritingRoutes ==
    {"register", "createCarListing", "updateCarListing", "updateUserProfile",
     "deleteCarListing", "deleteUserAccount"}

\* C23: a step in which register, create-listing, update-listing,
\* update-profile or a delete answers with a failure (status 400 or above)
\* leaves the user store and the listing store as they were.
C23_FailureChangesNothing ==
    [][(last' # last /\ last'.kind \in WritingRoutes /\ last'.status >= BAD_REQUEST)
            => users' = users /\ cars' = cars]_vars

\* C23 witness: a register request was answered 500 and the record it saved
\* is in the user store.
C23_Witness ==
    /\ last.kind = "register"
    /\ last.status = INTERNAL_SERVER_ERROR
    /\ 3 \in DOMAIN users
    /\ users[3].username = "bob"
    /\ \A token \in issued : token.userId # 3

\* C24: a GET, and an authenticated PUT or DELETE, on /cars/:id whose id
\* resolves to no listing is answered 404, whatever the id, an id that is no
\* ObjectId included; and an error that errorHandler answers from its
\* default branch is answered 500.
C24_UnresolvedAlways404 ==
    [][/\ \A id \in Ids :
            id \notin DOMAIN cars =>
                \A s \in Slots :
                    /\ getCarListingById(s, id) => last'.status = NOT_FOUND
                    /\ \A header \in issued :
                        /\ deleteCarListing(s, header, id) => last'.status = NOT_FOUND
                        /\ \A body \in GateCarBodies :
                                updateCarListing(s, header, body, id)
                                => last'.status = NOT_FOUND
        /\ (last' # last /\ last'.at = "errorHandler:46")
                => last'.status = INTERNAL_SERVER_ERROR]_vars

\* C24 witness: a GET /cars/:id with an id that is no ObjectId was answered
\* 500 from the default branch of errorHandler.
C24_Witness ==
    /\ last.kind = "getCarListingById"
    /\ last.at = "errorHandler:46"
    /\ last.status = INTERNAL_SERVER_ERROR
    /\ last.message = CastError.message

\* C25: a listing enters the store with view counter 0, whatever the body of
\* its POST /cars; the counter of a stored listing never decreases, and a
\* step changes it only when a GET /cars/:id on that listing performs its
\* findByIdAndUpdate: list queries, own-listings queries, updates and deletes
\* of other listings leave it as it was.
C25_ViewsOnlyByFetch ==
    [][/\ \A id \in DOMAIN cars' \ DOMAIN cars : cars'[id].views = 0
       /\ \A id \in DOMAIN cars \cap DOMAIN cars' :
            /\ cars'[id].views >= cars[id].views
            /\ cars'[id].views # cars[id].views => Fetching(id) # {}]_vars

\* C25 witness: an update of ann's listing, which was fetched twice, was
\* answered 200; the listing has the new price and its counter stands at 2.
C25_Witness ==
    /\ last.kind = "updateCarListing" /\ last.status = OK
    /\ \E id \in DOMAIN cars :
            cars[id].views = 2 /\ cars[id].price = 20 /\ cars[id].owner = 2

\* C26: on POST /cars, PUT /cars/:id and PUT /users/profile a request that
\* has a body the validator refuses and no token that verifies is answered
\* 400 with validation details: validation runs before authentication.
C26_ValidationBeforeAuthentication ==
    [][\A header \in BadHeaders :
        /\ \A body \in InvalidCarBodies :
            /\ createCarListing(header, body)
                => last'.status = BAD_REQUEST /\ last'.details # {}
            /\ \A id \in CarIds :
                updateCarListing(1, header, body, id)
                => last'.status = BAD_REQUEST /\ last'.details # {}
        /\ \A body \in InvalidProfileBodies :
            updateUserProfile(header, body)
            => last'.status = BAD_REQUEST /\ last'.details # {}]_vars

\* C26 witness: a POST /cars without a token, whose body validateCar would
\* refuse, was answered 401 by authenticate.
C26_Witness ==
    /\ last.kind = "createCarListing"
    /\ last.at = "authenticate:10"
    /\ last.status = UNAUTHORIZED
    /\ last.details = {}

\* C27: every 200 answer of PUT /cars/:id carries a listing, not null, that
\* is in the store with the values of the request body, whatever a
\* concurrent DELETE of the same listing did between the ownership check and
\* the write; when the listing is gone at the write the answer is not 200.
C27_UpdatedListingInStore ==
    [][\A s \in Slots :
        (Answered(s, "updateCarListing") /\ last'.status = OK)
        => /\ last'.car # NoCar
           /\ last'.car.id = reqs[s].id
           /\ reqs[s].id \in DOMAIN cars'
           /\ cars'[reqs[s].id].price = reqs[s].body.price]_vars

\* C27 witness: a PUT /cars/:id was answered 200 with a null listing, and
\* the store holds no listing: a DELETE removed it while the PUT was between
\* its ownership check and its write.
C27_Witness ==
    /\ last.at = "updateCarListing:122"
    /\ last.status = OK
    /\ last.car = NoCar
    /\ DOMAIN cars = {} /\ nextCar > 1

\* C28: in a 200 answer of GET /cars or GET /cars/user/listings the page and
\* pagination.total describe one state of the store, whatever creates and
\* deletes ran between the two reads: the page is no longer than total, and
\* every listing on the page is among the listings total counts.
C28_PageAndTotalAgree ==
    [][\A s \in Slots :
        (/\ Answered(s, "getAllCarListings") \/ Answered(s, "getUserCarListings")
         /\ last'.status = OK)
        => /\ Len(last'.cars) <= last'.pagination.total
           /\ \A i \in DOMAIN last'.cars :
                last'.cars[i] \in Selected(reqs[s], cars)]_vars

\* C28 witness: a GET /cars was answered with a page of one listing and a
\* total of 0: the listing was deleted between Car.find and
\* Car.countDocuments.
C28_Witness ==
    /\ last.kind = "getAllCarListings" /\ last.status = OK
    /\ Len(last.cars) = 1
    /\ last.pagination.total = 0
    /\ last.cars[1] \notin DOMAIN cars

\* C29: for every page and limit of the query string, zero and negative
\* values included, GET /cars is answered 200 with at most limit listings
\* and a pagination.pages that is a non-negative integer, the least whose
\* multiple of limit reaches total.
C29_PagesFinite ==
    [][/\ \A query \in PagingQueries : getAllCarListings(1, query) => last' = last
       /\ \A s \in Slots :
            Answered(s, "getAllCarListings")
            => LET limit == LimitOf(reqs[s].query)
                   pages == last'.pagination.pages
                   total == last'.pagination.total
               IN /\ last'.status = OK
                  /\ Len(last'.cars) <= limit
                  /\ pages >= 0
                  /\ pages * limit >= total
                  /\ (pages - 1) * limit < total]_vars

\* C29 witness: a GET /cars?limit=0 was answered 200 with every listing of
\* the store on the page and a pagination.pages that is no number.
C29_Witness ==
    /\ last.kind = "getAllCarListings" /\ last.status = OK
    /\ last.pagination.limit = 0
    /\ last.pagination.total = MaxListed
    /\ Len(last.cars) = MaxListed
    /\ last.pagination.pages = NotFinite

\* a checkAuth request that was sent with another token than the one of the
\* session now established fails in this step
StaleCheckFails(call) ==
    /\ call \in browser.pending /\ call.fn = "checkAuth"
    /\ browser.token # NoToken /\ call.header # browser.token
    /\ ~Authenticated(call.header)
    /\ checkAuth_resolved(call)

\* C30: in the browser client, every step of checkAuth, login, register and
\* logout, interleaved with their pending responses, leads to a state in
\* which state.user is set only if state.token is set and state.token is
\* the token localStorage holds (the page starts in such a state); and a
\* checkAuth that fails after it was sent with an old token leaves the
\* session a later login established as it is.
C30_SessionConsistent ==
    [][/\ browser'.user # 0 => browser'.token # NoToken
       /\ browser'.token = browser'.localStorage
       /\ \A call \in browser.pending :
            StaleCheckFails(call)
            => browser'.token = browser.token /\ browser'.user = browser.user]_vars

\* C30 witness: the answer of a checkAuth arrived after the logout and set
\* state.user, while state.token and localStorage hold no token.
C30_Witness ==
    /\ browser.user = 2
    /\ browser.token = NoToken /\ browser.localStorage = NoToken
    /\ browser.pending = {}

====
